---- MODULE Spec2Model ----
(***************************************************************************)
(* A model of the ji-lattice library (src/src/utils.ts, src/src/index.ts,  *)
(* src/src/lattice-3d.ts).  The library is a set of pure functions: the    *)
(* state of the model is one call - the operation, its arguments and the   *)
(* value it returned.  Arrays are sequences, so the array index k of the   *)
(* source is position k + 1 here; indices that the library returns         *)
(* (Connection.index1, Vertex.index) keep the source's 0-based values.     *)
(* Exponents and coordinates are integers: for integers Math.round(d) = d, *)
(* so taxicabDistance never takes its NaN return.                          *)
(***************************************************************************)
EXTENDS Integers, Sequences, FiniteSets, TLC

VARIABLES
  call,      \* the operation that has been called, "none" before the call
  args,      \* the arguments of the call
  result,    \* the value the call returned
  previous   \* the value an earlier call with related arguments returned

vars == <<call, args, result, previous>>

(***************************************************************************)
(* Bounds of the model.                                                    *)
(***************************************************************************)
\* Longest exponent vector (monzo) drawn as an input.
MaxLen == 3
\* Exponents are drawn from -MaxVal .. MaxVal.
MaxVal == 1
\* Largest number of monzos in an input batch.
MaxBatch == 3
\* maxDistance arguments are drawn from 0 .. MaxDistanceArg.
MaxDistanceArg == 3
\* Longest coordinate mapping drawn as an input.
MaxCoordLen == 2
\* Largest number of monzos in a batch given to spanLattice.
MaxLatticeBatch == 2
\* Largest number of vectors in a batch given to project and unproject.
MaxProjectBatch == 2
\* Longest depthwise mapping given to project and unproject.
MaxDepthLen == 1
\* Edges given to mergeEdges have x in 0 .. MaxX and y in 0 .. MaxY, and
\* there are at most MaxEdges of them.
MaxX == 2
MaxY == 1
MaxEdges == 3
\* Edges given to mergeEdges3D have x in 0 .. MaxX3D, y in 0 .. MaxY3D and
\* z in 0 .. MaxZ3D, and there are at most MaxEdges3D of them.
MaxX3D == 1
MaxY3D == 1
MaxZ3D == 2
MaxEdges3D == 2
\* modVal is given at most MaxLogs logarithms, each a whole number between
\* -1 and MaxLog of units 1 / LogUnit with LogUnit in 1 .. MaxLogUnit, the
\* first one positive; divisions is in 1 .. MaxDivisions or that of a
\* preset, and searchResolution in 0 .. MaxSearchResolution.
MaxLogs == 4
MaxLog == 3
MaxLogUnit == 2
MaxDivisions == 4
MaxSearchResolution == 2
\* The presets are given up to MaxPresetExcess logarithms fewer or more
\* than their number of divisions.
MaxPresetExcess == 1
\* spanGrid is given up to MaxSeedSteps steps between -1 and MaxStep, or
\* two such steps repeated in turn up to MaxSteps steps; the modulus is in
\* 1 .. MaxModulus, a generator takes 1 .. MaxDelta steps, range is omitted
\* or in 1 .. MaxRange, and maxVertices and maxEdges are omitted or in
\* 0 .. MaxCeiling.
MaxSeedSteps == 2
MaxStep == 1
MaxSteps == 11
MaxModulus == 3
MaxDelta == 2
MaxRange == 2
MaxCeiling == 2
\* gridline is called for offsets and directions with coordinates of at most
\* MaxGridStep in absolute value, in viewports that reach at most MaxView
\* from the origin.
MaxGridStep == 1
MaxView == 2
\* A caller makes up to MaxCalls calls on the same arguments.
MaxCalls == 3
\* The merged and the unmerged custom edges of spanGrid are compared for up
\* to MaxEdgeVectors edge vectors.
MaxEdgeVectors == 2
\* Largest number of edgeMonzos given to spanLattice.
MaxEdgeMonzos == 2
\* Exponents of the monzos given to spanLattice are drawn from
\* -MaxVal .. MaxLatticeVal.
MaxLatticeVal == 2

(***************************************************************************)
(* Arithmetic and array helpers.                                           *)
(***************************************************************************)
Abs(x) == IF x < 0 THEN -x ELSE x

Max(a, b) == IF a > b THEN a ELSE b

Min(a, b) == IF a < b THEN a ELSE b

Range(s) == {s[i] : i \in DOMAIN s}

\* monzos[i][k] ?? 0
At(v, k) == IF k \in DOMAIN v THEN v[k] ELSE 0

\* n zeros
Zeros(n) == [x \in 1..n |-> 0]

\* All sequences over S of length at most n.
SeqsUpTo(S, n) == UNION {[1..m -> S] : m \in 0..n}

(***************************************************************************)
(* xen-dev-utils (an external package): monzosEqual, sub and dot, by their *)
(* contracts.  The shorter vector counts as zero-extended.                 *)
(***************************************************************************)
monzosEqual(a, b) == \A k \in 1..Max(Len(a), Len(b)) : At(a, k) = At(b, k)

sub(a, b) == [k \in 1..Max(Len(a), Len(b)) |-> At(a, k) - At(b, k)]

RECURSIVE dotFrom(_, _, _)
dotFrom(a, b, k) ==
  IF k > Min(Len(a), Len(b)) THEN 0 ELSE a[k] * b[k] + dotFrom(a, b, k + 1)

dot(a, b) == dotFrom(a, b, 1)

(***************************************************************************)
(* taxicabDistance, src/src/utils.ts:21-49 (copied at index.ts:215-243).   *)
(***************************************************************************)
\* The two loops of taxicabDistance, a being the vector that is not longer.
RECURSIVE taxicabLoops(_, _, _)
taxicabLoops(a, b, i) ==
  IF i > Len(b) THEN 0
  ELSE (IF i <= Len(a) THEN Abs(a[i] - b[i]) ELSE Abs(b[i]))
       + taxicabLoops(a, b, i + 1)

\* A taxicabDistance without its second loop: the longer vector's tail is lost.
taxicabDistanceNoTail(a, b) ==
  IF Len(a) > Len(b) THEN taxicabLoops(b, SubSeq(a, 1, Len(b)), 1)
  ELSE taxicabLoops(a, SubSeq(b, 1, Len(a)), 1)

taxicabDistance(a, b) ==
  IF Len(a) > Len(b) THEN taxicabLoops(b, a, 1) ELSE taxicabLoops(a, b, 1)

(***************************************************************************)
(* connect, src/src/utils.ts:57-141 (copied at index.ts:251-335).          *)
(***************************************************************************)
\* const monzo = [...monzos[j]]; for (l = monzos[j].length; l < monzos[i].length; ++l) monzo[l] = 0
paddedCopy(mj, mi) ==
  IF Len(mi) > Len(mj) THEN mj \o Zeros(Len(mi) - Len(mj)) ELSE mj

\* A comparison that finds no existing vector equal.
isExistingNever(monzo, existing) == FALSE

\* monzosEqual(monzo, existing) for some existing of monzos.concat(connectingMonzos)
isExisting(monzo, existing) == \E e \in Range(existing) : monzosEqual(monzo, e)

\* A gapSearch that handles the gap of 2 only: the +-1 branch is missing.
RECURSIVE gapSearchOnlyEven(_, _, _, _, _)
gapSearchOnlyEven(mi, mj, k, len, existing) ==
  IF k > len THEN <<>>
  ELSE
    LET gap == At(mi, k) - At(mj, k) IN
    IF Abs(gap) = 2 THEN
      LET monzo == [paddedCopy(mj, mi) EXCEPT ![k] = @ + gap \div 2] IN
      IF isExisting(monzo, existing) THEN <<>> ELSE <<monzo>>
    ELSE gapSearchOnlyEven(mi, mj, k + 1, len, existing)

\* The gapSearch loop from index k on, for the pair (mi, mj): the vectors it
\* pushes onto connectingMonzos.  existing = monzos.concat(connectingMonzos).
RECURSIVE gapSearch(_, _, _, _, _)
gapSearch(mi, mj, k, len, existing) ==
  IF k > len THEN <<>>
  ELSE
    LET gap == At(mi, k) - At(mj, k) IN
    IF Abs(gap) = 2 THEN
      LET monzo == [paddedCopy(mj, mi) EXCEPT ![k] = @ + gap \div 2] IN
      IF isExisting(monzo, existing) THEN <<>> ELSE <<monzo>>
    ELSE IF Abs(gap) = 1 /\ k + 1 <= len THEN
      \* The loop over l ends with break gapSearch in its first pass: l = k + 1.
      LET l == k + 1
          otherGap == At(mi, l) - At(mj, l)
          monzo == [paddedCopy(mj, mi) EXCEPT ![k] = @ + gap]
          otherWay == [paddedCopy(mj, mi) EXCEPT ![l] = @ + otherGap]
      IN (IF isExisting(monzo, existing) THEN <<>> ELSE <<monzo>>)
         \o (IF isExisting(otherWay, existing) THEN <<>> ELSE <<otherWay>>)
    ELSE gapSearch(mi, mj, k + 1, len, existing)

\* The loops over i < j of lines 66-118, from the pair (i, j) on.
RECURSIVE synthesize(_, _, _, _, _)
synthesize(monzos, maxDistance, i, j, connectingMonzos) ==
  IF i > Len(monzos) THEN connectingMonzos
  ELSE IF j > Len(monzos)
    THEN synthesize(monzos, maxDistance, i + 1, i + 2, connectingMonzos)
  ELSE
    LET distance == taxicabDistance(monzos[i], monzos[j])
        pushed ==
          IF distance > 1 /\ distance <= maxDistance
          THEN gapSearch(monzos[i], monzos[j], 1,
                         Max(Len(monzos[i]), Len(monzos[j])),
                         monzos \o connectingMonzos)
          ELSE <<>>
    IN synthesize(monzos, maxDistance, i, j + 1, connectingMonzos \o pushed)

\* A connectionType with || in place of &&.
connectionTypeEither(i, j, primaryLength) ==
  IF i <= primaryLength \/ j <= primaryLength THEN "primary" ELSE "auxiliary"

\* type: i < primaryLength && j < primaryLength ? 'primary' : 'auxiliary'
connectionType(i, j, primaryLength) ==
  IF i <= primaryLength /\ j <= primaryLength THEN "primary" ELSE "auxiliary"

\* The loops over i < j of lines 123-135, from the pair (i, j) on.
RECURSIVE unitConnections(_, _, _, _)
unitConnections(monzos, primaryLength, i, j) ==
  IF i > Len(monzos) THEN <<>>
  ELSE IF j > Len(monzos) THEN unitConnections(monzos, primaryLength, i + 1, i + 2)
  ELSE
    (IF taxicabDistance(monzos[i], monzos[j]) = 1
     THEN <<[index1 |-> i - 1, index2 |-> j - 1,
             type |-> connectionType(i, j, primaryLength)]>>
     ELSE <<>>)
    \o unitConnections(monzos, primaryLength, i, j + 1)

\* A guard that lets maxDistance = 3 through.
connectThrowsLate(maxDistance) == maxDistance > 3

\* if (maxDistance > 2) throw
connectThrows(maxDistance) == maxDistance > 2

\* A connect whose second pass also runs for maxDistance = 0.
connectAlways(monzos, maxDistance) ==
  IF connectThrows(maxDistance)
  THEN [error |-> TRUE, connections |-> <<>>, connectingMonzos |-> <<>>]
  ELSE
    LET connectingMonzos ==
          IF maxDistance > 1 THEN synthesize(monzos, maxDistance, 1, 2, <<>>)
          ELSE <<>>
    IN [error |-> FALSE,
        connections |-> unitConnections(monzos \o connectingMonzos, Len(monzos), 1, 2),
        connectingMonzos |-> connectingMonzos]

connect(monzos, maxDistance) ==
  IF connectThrows(maxDistance)
  THEN [error |-> TRUE, connections |-> <<>>, connectingMonzos |-> <<>>]
  ELSE
    LET connectingMonzos ==
          IF maxDistance > 1 THEN synthesize(monzos, maxDistance, 1, 2, <<>>)
          ELSE <<>>
        connections ==
          IF maxDistance >= 1
          THEN unitConnections(monzos \o connectingMonzos, Len(monzos), 1, 2)
          ELSE <<>>
    IN [error |-> FALSE, connections |-> connections,
        connectingMonzos |-> connectingMonzos]

(***************************************************************************)
(* project and unproject, src/src/utils.ts:143-175 (lattice-3d.ts passes   *)
(* three mappings) and their two-mapping copies at index.ts:337-377.       *)
(***************************************************************************)
\* m.splice(i, 1): no effect when i is past the end
spliceOut(m, i) ==
  IF i <= Len(m) THEN SubSeq(m, 1, i - 1) \o SubSeq(m, i + 1, Len(m)) ELSE m

\* A splice that always inserts at the end.
spliceZeroAtEnd(u, i) == Append(u, 0)

\* u.splice(i, 0, 0): a start past the end is clamped to the end
spliceZero(u, i) ==
  IF i > Len(u) THEN Append(u, 0)
  ELSE SubSeq(u, 1, i - 1) \o <<0>> \o SubSeq(u, i, Len(u))

\* A truncation that keeps every entry.
truncateNothing(m, limit) == m

\* m.length = Math.min(limit, m.length)
truncate(m, limit) == SubSeq(m, 1, Min(limit, Len(m)))

\* Math.max(...coordss.map(coords => coords.length))
RECURSIVE maxLength(_)
maxLength(coordss) ==
  IF coordss = <<>> THEN 0
  ELSE Max(Len(Head(coordss)), maxLength(Tail(coordss)))

\* coordss.map(coords => coords[i]).some(Boolean): absent and 0 are falsy
someCoordinate(coordss, i) ==
  \E c \in DOMAIN coordss : i \in DOMAIN coordss[c] /\ coordss[c][i] # 0

\* The loop for (i = limit - 1; i >= 0; --i) of project on one vector.
RECURSIVE dropColumns(_, _, _)
dropColumns(m, i, coordss) ==
  IF i < 1 THEN m
  ELSE dropColumns(IF someCoordinate(coordss, i) THEN m ELSE spliceOut(m, i),
                   i - 1, coordss)

project(monzos, coordss) ==
  LET limit == maxLength(coordss) IN
  [n \in DOMAIN monzos |-> dropColumns(truncate(monzos[n], limit), limit, coordss)]

\* The loop for (i = 0; i < limit; ++i) of unproject on one vector.
RECURSIVE insertColumns(_, _, _, _)
insertColumns(u, i, limit, coordss) ==
  IF i > limit THEN u
  ELSE insertColumns(IF someCoordinate(coordss, i) THEN u ELSE spliceZero(u, i),
                     i + 1, limit, coordss)

unproject(monzos, coordss) ==
  IF Len(monzos) = 0 THEN <<>>
  ELSE [n \in DOMAIN monzos |->
          insertColumns(monzos[n], 1, maxLength(coordss), coordss)]

\* horizontalCoordinates[i] || verticalCoordinates[i]
eitherCoordinate(options, i) ==
  \/ (i \in DOMAIN options.horizontalCoordinates
      /\ options.horizontalCoordinates[i] # 0)
  \/ (i \in DOMAIN options.verticalCoordinates
      /\ options.verticalCoordinates[i] # 0)

\* Math.max(horizontalCoordinates.length, verticalCoordinates.length)
limit2D(options) ==
  Max(Len(options.horizontalCoordinates), Len(options.verticalCoordinates))

RECURSIVE dropColumns2D(_, _, _)
dropColumns2D(m, i, options) ==
  IF i < 1 THEN m
  ELSE dropColumns2D(IF eitherCoordinate(options, i) THEN m ELSE spliceOut(m, i),
                     i - 1, options)

project2D(monzos, options) ==
  [n \in DOMAIN monzos |->
     dropColumns2D(truncate(monzos[n], limit2D(options)), limit2D(options), options)]

RECURSIVE insertColumns2D(_, _, _)
insertColumns2D(u, i, options) ==
  IF i > limit2D(options) THEN u
  ELSE insertColumns2D(IF eitherCoordinate(options, i) THEN u ELSE spliceZero(u, i),
                       i + 1, options)

\* An unproject that restores no column.
unproject2DNothing(monzos, options) == monzos

unproject2D(monzos, options) ==
  IF Len(monzos) = 0 THEN <<>>
  ELSE [n \in DOMAIN monzos |-> insertColumns2D(monzos[n], 1, options)]

(***************************************************************************)
(* mergeEdges, src/src/index.ts:163-205.                                   *)
(***************************************************************************)
\* An orientation that keeps every edge as given.
orientNothing(edge) == edge

\* Choose a canonical orientation (lines 166-178).
orient(edge) ==
  IF edge.x2 < edge.x1 \/ (edge.x2 = edge.x1 /\ edge.y2 < edge.y1)
  THEN [x1 |-> edge.x2, y1 |-> edge.y2, x2 |-> edge.x1, y2 |-> edge.y1,
        type |-> edge.type]
  ELSE edge

\* The comparator a.x1 - b.x1 || a.y1 - b.y1 is negative.
startsBefore(a, b) == a.x1 < b.x1 \/ (a.x1 = b.x1 /\ a.y1 < b.y1)

\* Array.prototype.sort is stable: e goes behind every element that does not
\* start after it.
RECURSIVE insertSorted(_, _)
insertSorted(sorted, e) ==
  IF sorted = <<>> THEN <<e>>
  ELSE IF startsBefore(e, Head(sorted)) THEN <<e>> \o sorted
  ELSE <<Head(sorted)>> \o insertSorted(Tail(sorted), e)

RECURSIVE sortByStart(_)
sortByStart(es) ==
  IF es = <<>> THEN <<>>
  ELSE insertSorted(sortByStart(SubSeq(es, 1, Len(es) - 1)), es[Len(es)])

\* The loop over j of lines 190-201 from j on: the end point reached and the
\* indices added to spent.
RECURSIVE absorb(_, _, _, _, _, _, _, _)
absorb(oriented, j, x2, y2, type, dx, dy, spent) ==
  IF j > Len(oriented) THEN [x2 |-> x2, y2 |-> y2, spent |-> spent]
  ELSE
    LET e == oriented[j] IN
    IF /\ e.x1 = x2 /\ e.y1 = y2 /\ e.type = type
       /\ (e.x2 - e.x1) * dy = dx * (e.y2 - e.y1)
    THEN absorb(oriented, j + 1, e.x2, e.y2, type, dx, dy, spent \cup {j})
    ELSE absorb(oriented, j + 1, x2, y2, type, dx, dy, spent)

\* The loop over i of lines 182-203 from i on.
RECURSIVE mergeFrom(_, _, _)
mergeFrom(oriented, i, spent) ==
  IF i > Len(oriented) THEN <<>>
  ELSE IF i \in spent THEN mergeFrom(oriented, i + 1, spent)
  ELSE
    LET o == oriented[i]
        chain == absorb(oriented, i + 1, o.x2, o.y2, o.type,
                        o.x2 - o.x1, o.y2 - o.y1, spent)
    IN <<[x1 |-> o.x1, y1 |-> o.y1, x2 |-> chain.x2, y2 |-> chain.y2,
          type |-> o.type]>>
       \o mergeFrom(oriented, i + 1, chain.spent)

mergeEdges(edges) ==
  mergeFrom(sortByStart([n \in DOMAIN edges |-> orient(edges[n])]), 1, {})

(***************************************************************************)
(* spanLattice, src/src/index.ts:385-456.                                  *)
(***************************************************************************)
\* An optional argument is <<>> when omitted and <<value>> when given.
\* options.maxDistance ?? 1
maxDistanceOf(options) ==
  IF options.maxDistance = <<>> THEN 1 ELSE options.maxDistance[1]

\* The edge monzos without their negations.
withoutNegations(ems) == ems

\* ems.concat(ems.map(em => em.map(e => -e)))
withNegations(ems) ==
  ems \o [n \in DOMAIN ems |-> [k \in DOMAIN ems[n] |-> -ems[n][k]]]

\* type: i < monzos.length && j < monzos.length ? 'custom' : 'auxiliary'
customType(i, j, primaryLength) ==
  IF i <= primaryLength /\ j <= primaryLength THEN "custom" ELSE "auxiliary"

\* An edge that takes its vertical coordinates from the wrong vertices.
edgeBetweenCrossed(v1, v2, type) ==
  [x1 |-> v1.x, y1 |-> v2.y, x2 |-> v2.x, y2 |-> v1.y, type |-> type]

edgeBetween(v1, v2, type) ==
  [x1 |-> v1.x, y1 |-> v1.y, x2 |-> v2.x, y2 |-> v2.y, type |-> type]

\* for (const em of ems) if (monzosEqual(diff, em)) edges.push(...), from em n on
RECURSIVE matchingEdges(_, _, _, _)
matchingEdges(diff, ems, n, edge) ==
  IF n > Len(ems) THEN <<>>
  ELSE (IF monzosEqual(diff, ems[n]) THEN <<edge>> ELSE <<>>)
       \o matchingEdges(diff, ems, n + 1, edge)

\* The loops over i < j of lines 429-445, from the pair (i, j) on.
RECURSIVE customEdges(_, _, _, _, _, _)
customEdges(projected, ems, vertices, primaryLength, i, j) ==
  IF i > Len(projected) THEN <<>>
  ELSE IF j > Len(projected)
    THEN customEdges(projected, ems, vertices, primaryLength, i + 1, i + 2)
  ELSE
    matchingEdges(sub(projected[i], projected[j]), ems, 1,
                  edgeBetween(vertices[i], vertices[j],
                              customType(i, j, primaryLength)))
    \o customEdges(projected, ems, vertices, primaryLength, i, j + 1)

spanLattice(monzos, options) ==
  LET horizontalCoordinates == options.horizontalCoordinates
      verticalCoordinates == options.verticalCoordinates
      projected == project2D(monzos, options)
      connected == connect(projected, maxDistanceOf(options))
  IN
  IF connected.error THEN [error |-> TRUE, vertices |-> <<>>, edges |-> <<>>]
  ELSE
    LET connections == connected.connections
        connectingMonzos == connected.connectingMonzos
        unprojected == unproject2D(connectingMonzos, options)
        vertices ==
          [index \in DOMAIN monzos |->
             [index |-> <<index - 1>>,
              x |-> dot(monzos[index], horizontalCoordinates),
              y |-> dot(monzos[index], verticalCoordinates)]]
          \o [n \in DOMAIN unprojected |->
                [index |-> <<>>,
                 x |-> dot(unprojected[n], horizontalCoordinates),
                 y |-> dot(unprojected[n], verticalCoordinates)]]
        connectionEdges ==
          [n \in DOMAIN connections |->
             edgeBetween(vertices[connections[n].index1 + 1],
                         vertices[connections[n].index2 + 1],
                         connections[n].type)]
        extraEdges ==
          IF options.edgeMonzos = <<>> THEN <<>>
          ELSE customEdges(projected \o connectingMonzos,
                           withNegations(project2D(options.edgeMonzos[1], options)),
                           vertices, Len(monzos), 1, 2)
        edges == connectionEdges \o extraEdges
    IN [error |-> FALSE, vertices |-> vertices,
        edges |-> IF options.mergeEdges THEN mergeEdges(edges) ELSE edges]

(***************************************************************************)
(* mergeEdges3D, src/src/lattice-3d.ts:74-125.                             *)
(***************************************************************************)
orient3D(edge) ==
  IF \/ edge.x2 < edge.x1
     \/ (edge.x2 = edge.x1 /\ edge.y2 < edge.y1)
     \/ (edge.y2 = edge.y1 /\ edge.z2 < edge.z1)
  THEN [x1 |-> edge.x2, y1 |-> edge.y2, z1 |-> edge.z2,
        x2 |-> edge.x1, y2 |-> edge.y1, z2 |-> edge.z1, type |-> edge.type]
  ELSE edge

\* The comparator a.x1 - b.x1 || a.y1 - b.y1 || a.z1 - b.z1 is negative.
startsBefore3D(a, b) ==
  \/ a.x1 < b.x1
  \/ (a.x1 = b.x1 /\ a.y1 < b.y1)
  \/ (a.x1 = b.x1 /\ a.y1 = b.y1 /\ a.z1 < b.z1)

RECURSIVE insertSorted3D(_, _)
insertSorted3D(sorted, e) ==
  IF sorted = <<>> THEN <<e>>
  ELSE IF startsBefore3D(e, Head(sorted)) THEN <<e>> \o sorted
  ELSE <<Head(sorted)>> \o insertSorted3D(Tail(sorted), e)

RECURSIVE sortByStart3D(_)
sortByStart3D(es) ==
  IF es = <<>> THEN <<>>
  ELSE insertSorted3D(sortByStart3D(SubSeq(es, 1, Len(es) - 1)), es[Len(es)])

\* The loop over j of lines 108-121 from j on; end = <<x2, y2, z2>>,
\* d = <<dx, dy, dz>>.
RECURSIVE absorb3D(_, _, _, _, _, _)
absorb3D(oriented, j, end, type, d, spent) ==
  IF j > Len(oriented) THEN [end |-> end, spent |-> spent]
  ELSE
    LET e == oriented[j]
        dex == e.x2 - e.x1
        dey == e.y2 - e.y1
        dez == e.z2 - e.z1
    IN
    IF /\ e.x1 = end[1] /\ e.y1 = end[2] /\ e.z1 = e.z2 /\ e.type = type
       /\ dex * d[2] = d[1] * dey /\ dex * d[3] = d[3] * dez
    THEN absorb3D(oriented, j + 1, <<e.x2, e.y2, e.z2>>, type, d, spent \cup {j})
    ELSE absorb3D(oriented, j + 1, end, type, d, spent)

RECURSIVE mergeFrom3D(_, _, _)
mergeFrom3D(oriented, i, spent) ==
  IF i > Len(oriented) THEN <<>>
  ELSE IF i \in spent THEN mergeFrom3D(oriented, i + 1, spent)
  ELSE
    LET o == oriented[i]
        chain == absorb3D(oriented, i + 1, <<o.x2, o.y2, o.z2>>, o.type,
                          <<o.x2 - o.x1, o.y2 - o.y1, o.z2 - o.z1>>, spent)
    IN <<[x1 |-> o.x1, y1 |-> o.y1, z1 |-> o.z1, x2 |-> chain.end[1],
          y2 |-> chain.end[2], z2 |-> chain.end[3], type |-> o.type]>>
       \o mergeFrom3D(oriented, i + 1, chain.spent)

\* A merge that returns the edges as given.
mergeEdges3DNothing(edges) == edges

mergeEdges3D(edges) ==
  mergeFrom3D(sortByStart3D([n \in DOMAIN edges |-> orient3D(edges[n])]), 1, {})

(***************************************************************************)
(* spanLattice3D, src/src/lattice-3d.ts:133-216.                           *)
(***************************************************************************)
edgeBetween3D(v1, v2, type) ==
  [x1 |-> v1.x, y1 |-> v1.y, z1 |-> v1.z,
   x2 |-> v2.x, y2 |-> v2.y, z2 |-> v2.z, type |-> type]

RECURSIVE customEdges3D(_, _, _, _, _, _)
customEdges3D(projected, ems, vertices, primaryLength, i, j) ==
  IF i > Len(projected) THEN <<>>
  ELSE IF j > Len(projected)
    THEN customEdges3D(projected, ems, vertices, primaryLength, i + 1, i + 2)
  ELSE
    matchingEdges(sub(projected[i], projected[j]), ems, 1,
                  edgeBetween3D(vertices[i], vertices[j],
                                customType(i, j, primaryLength)))
    \o customEdges3D(projected, ems, vertices, primaryLength, i, j + 1)

spanLattice3D(monzos, options) ==
  LET horizontalCoordinates == options.horizontalCoordinates
      verticalCoordinates == options.verticalCoordinates
      depthwiseCoordinates == options.depthwiseCoordinates
      coordss == <<verticalCoordinates, horizontalCoordinates, depthwiseCoordinates>>
      projected == project(monzos, coordss)
      connected == connect(projected, maxDistanceOf(options))
  IN
  IF connected.error THEN [error |-> TRUE, vertices |-> <<>>, edges |-> <<>>]
  ELSE
    LET connections == connected.connections
        connectingMonzos == connected.connectingMonzos
        unprojected == unproject(connectingMonzos, coordss)
        vertices ==
          [index \in DOMAIN monzos |->
             [index |-> <<index - 1>>,
              x |-> dot(monzos[index], horizontalCoordinates),
              y |-> dot(monzos[index], verticalCoordinates),
              z |-> dot(monzos[index], depthwiseCoordinates)]]
          \o [n \in DOMAIN unprojected |->
                [index |-> <<>>,
                 x |-> dot(unprojected[n], horizontalCoordinates),
                 y |-> dot(unprojected[n], verticalCoordinates),
                 z |-> dot(unprojected[n], depthwiseCoordinates)]]
        connectionEdges ==
          [n \in DOMAIN connections |->
             edgeBetween3D(vertices[connections[n].index1 + 1],
                           vertices[connections[n].index2 + 1],
                           connections[n].type)]
        extraEdges ==
          IF options.edgeMonzos = <<>> THEN <<>>
          ELSE customEdges3D(projected \o connectingMonzos,
                             withNegations(project(options.edgeMonzos[1], coordss)),
                             vertices, Len(monzos), 1, 2)
        edges == connectionEdges \o extraEdges
    IN [error |-> FALSE, vertices |-> vertices,
        edges |-> IF options.mergeEdges THEN mergeEdges3D(edges) ELSE edges]

(***************************************************************************)
(* Inputs.                                                                 *)
(***************************************************************************)
Exponents == (-MaxVal)..MaxVal

Monzos == SeqsUpTo(Exponents, MaxLen)

Batches == SeqsUpTo(Monzos, MaxBatch)

\* Coefficients of the horizontal, vertical and depthwise mappings: 0 marks
\* an axis the mapping does not use.
HorizontalCoefficients == {0, 1}

VerticalCoefficients == {0, 2}

DepthwiseCoefficients == {0, 3}

LatticeExponents == (-MaxVal)..MaxLatticeVal

LatticeMonzos == SeqsUpTo(LatticeExponents, MaxCoordLen)

\* Custom edge displacements: none, a step of the second axis, a diagonal.
EdgeMonzoChoices == {<<>>, <<0, 1>>, <<1, -1>>}

LatticeBatches == SeqsUpTo(LatticeMonzos, MaxLatticeBatch)

\* An optional argument: omitted, or one value of S.
Optional(S) == {<<>>} \cup {<<x>> : x \in S}

NoResult == [error |-> FALSE]

(***************************************************************************)
(* connect called on a batch.                                              *)
(***************************************************************************)
InitConnect ==
  /\ call = "none"
  /\ args \in [monzos : Batches, maxDistance : 0..MaxDistanceArg]
  /\ result = NoResult
  /\ previous = NoResult

CallConnect ==
  /\ call = "none"
  /\ call' = "connect"
  /\ result' = connect(args.monzos, args.maxDistance)
  /\ UNCHANGED <<args, previous>>

NextConnect == CallConnect

SpecConnect == InitConnect /\ [][NextConnect]_vars

(***************************************************************************)
(* spanLattice, spanLattice3D and connect called on a batch of monzos with *)
(* coordinate mappings; the remaining options are drawn at the call.       *)
(***************************************************************************)
InitLattice ==
  /\ call = "none"
  /\ args \in [monzos : LatticeBatches,
               horizontalCoordinates : SeqsUpTo(HorizontalCoefficients, MaxCoordLen),
               verticalCoordinates : SeqsUpTo(VerticalCoefficients, MaxCoordLen)]
  /\ result = NoResult
  /\ previous = NoResult

CallSpanLattice ==
  /\ call = "none"
  /\ \E maxDistance \in Optional(0..MaxDistanceArg),
        edgeMonzos \in Optional(SeqsUpTo(EdgeMonzoChoices, MaxEdgeMonzos)),
        merge \in BOOLEAN :
       LET options == [horizontalCoordinates |-> args.horizontalCoordinates,
                       verticalCoordinates |-> args.verticalCoordinates,
                       maxDistance |-> maxDistance,
                       edgeMonzos |-> edgeMonzos,
                       mergeEdges |-> merge]
       IN /\ call' = "spanLattice"
          /\ args' = [monzos |-> args.monzos, options |-> options]
          /\ result' = spanLattice(args.monzos, options)
  /\ UNCHANGED previous

CallSpanLattice3D ==
  /\ call = "none"
  /\ \E maxDistance \in Optional(0..MaxDistanceArg),
        depthwise \in SeqsUpTo(DepthwiseCoefficients, MaxCoordLen) :
       LET options == [horizontalCoordinates |-> args.horizontalCoordinates,
                       verticalCoordinates |-> args.verticalCoordinates,
                       depthwiseCoordinates |-> depthwise,
                       maxDistance |-> maxDistance,
                       edgeMonzos |-> <<>>,
                       mergeEdges |-> FALSE]
       IN /\ call' = "spanLattice3D"
          /\ args' = [monzos |-> args.monzos, options |-> options]
          /\ result' = spanLattice3D(args.monzos, options)
  /\ UNCHANGED previous

CallConnectWith ==
  /\ call = "none"
  /\ \E maxDistance \in 0..MaxDistanceArg :
       /\ call' = "connect"
       /\ args' = [monzos |-> args.monzos, maxDistance |-> maxDistance]
       /\ result' = connect(args.monzos, maxDistance)
  /\ UNCHANGED previous

NextLattice == CallSpanLattice \/ CallSpanLattice3D \/ CallConnectWith

SpecLattice == InitLattice /\ [][NextLattice]_vars

(***************************************************************************)
(* Properties of connect.                                                  *)
(***************************************************************************)
\* The sum of |a[k] - b[k]| over all axes, the shorter vector zero-padded.
RECURSIVE Manhattan(_, _, _)
Manhattan(a, b, k) ==
  IF k = 0 THEN 0 ELSE Abs(At(a, k) - At(b, k)) + Manhattan(a, b, k - 1)

ManhattanDistance(a, b) == Manhattan(a, b, Max(Len(a), Len(b)))

\* The extended batch of a connect call: inputs, then synthesized auxiliaries.
Extended == args.monzos \o result.connectingMonzos

\* The connections between the vertices at positions p and q (1-based).
ConnectionsBetween(p, q) ==
  {n \in DOMAIN result.connections :
     {result.connections[n].index1, result.connections[n].index2} = {p - 1, q - 1}}

Connected(p, q) == ConnectionsBetween(p, q) # {}

ConnectDone == call = "connect" /\ ~result.error

\* C1: with maxDistance 1 or 2, a pair of the extended batch has a Connection
\* if and only if its zero-padded Manhattan distance is exactly 1, and it has
\* at most one.
C1_UnitDistanceIff ==
  (ConnectDone /\ args.maxDistance \in {1, 2}) =>
    \A p, q \in DOMAIN Extended :
      p < q =>
        Cardinality(ConnectionsBetween(p, q))
          = (IF ManhattanDistance(Extended[p], Extended[q]) = 1 THEN 1 ELSE 0)

\* A call with maxDistance 2 that synthesized an auxiliary, where two vectors
\* of different lengths are one step apart and some pair is not.
C1_Witness ==
  /\ ConnectDone /\ args.maxDistance = 2
  /\ Len(result.connectingMonzos) > 0
  /\ \E p, q \in DOMAIN Extended :
       /\ p < q /\ Len(Extended[p]) # Len(Extended[q])
       /\ ManhattanDistance(Extended[p], Extended[q]) = 1
       /\ Connected(p, q)
  /\ \E p, q \in DOMAIN Extended :
       p < q /\ ManhattanDistance(Extended[p], Extended[q]) > 1 /\ ~Connected(p, q)

\* C2: with maxDistance 2, two inputs at Manhattan distance exactly 2 are
\* joined by a two-edge path through a vertex of the extended batch.
C2_TwoEdgePath ==
  (ConnectDone /\ args.maxDistance = 2) =>
    \A p, q \in DOMAIN args.monzos :
      (p < q /\ ManhattanDistance(args.monzos[p], args.monzos[q]) = 2) =>
        \E w \in DOMAIN Extended : Connected(p, w) /\ Connected(w, q)

\* Two inputs one step apart on each of two axes, joined through a synthesized
\* auxiliary.
C2_Witness ==
  /\ ConnectDone /\ args.maxDistance = 2
  /\ \E p, q \in DOMAIN args.monzos :
       /\ p < q
       /\ ManhattanDistance(args.monzos[p], args.monzos[q]) = 2
       /\ \E k \in 1..MaxLen : Abs(At(args.monzos[p], k) - At(args.monzos[q], k)) = 1
       /\ \E w \in DOMAIN Extended :
            w > Len(args.monzos) /\ Connected(p, w) /\ Connected(w, q)

\* C3: every Connection has index1 < index2 < n + a, and is 'primary' exactly
\* when both indices are below n, 'auxiliary' otherwise.
C3_IndexOrderAndType ==
  ConnectDone =>
    \A n \in DOMAIN result.connections :
      LET c == result.connections[n] IN
      /\ 0 <= c.index1 /\ c.index1 < c.index2
      /\ c.index2 < Len(args.monzos) + Len(result.connectingMonzos)
      /\ c.type \in {"primary", "auxiliary"}
      /\ c.type = "primary" <=>
           (c.index1 < Len(args.monzos) /\ c.index2 < Len(args.monzos))

\* A call that returned a primary Connection and an auxiliary one, between an
\* input and a synthesized vector.
C3_Witness ==
  /\ ConnectDone
  /\ \E n \in DOMAIN result.connections : result.connections[n].type = "primary"
  /\ \E n \in DOMAIN result.connections :
       /\ result.connections[n].type = "auxiliary"
       /\ result.connections[n].index1 < Len(args.monzos)
       /\ result.connections[n].index2 >= Len(args.monzos)

(***************************************************************************)
(* Properties of spanLattice.                                              *)
(***************************************************************************)
\* The maxDistance a call asked for: the argument of connect, or the option
\* of spanLattice and spanLattice3D with its default.
RequestedDistance ==
  IF call = "connect" THEN args.maxDistance
  ELSE IF args.options.maxDistance = <<>> THEN 1 ELSE args.options.maxDistance[1]

SpanDone == call = "spanLattice" /\ ~result.error

\* C4: connect, spanLattice and spanLattice3D called with maxDistance > 2
\* fail, and return no connections, auxiliaries, vertices or edges.
C4_TooFarFails ==
  /\ (call = "connect" /\ RequestedDistance > 2) =>
       result.error /\ result.connections = <<>> /\ result.connectingMonzos = <<>>
  /\ (call \in {"spanLattice", "spanLattice3D"} /\ RequestedDistance > 2) =>
       result.error /\ result.vertices = <<>> /\ result.edges = <<>>

\* spanLattice3D called with maxDistance 3 on two monzos that differ.
C4_Witness ==
  /\ call = "spanLattice3D" /\ RequestedDistance = 3
  /\ Len(args.monzos) = 2 /\ args.monzos[1] # args.monzos[2]
  /\ result.error

\* C5: with maxDistance 0 connect returns no connections and no auxiliaries,
\* and spanLattice without edgeMonzos returns one indexed vertex per input
\* monzo and no edges.
C5_DistanceZero ==
  /\ (call = "connect" /\ args.maxDistance = 0) =>
       ~result.error /\ result.connections = <<>> /\ result.connectingMonzos = <<>>
  /\ (call = "spanLattice" /\ args.options.maxDistance = <<0>>
        /\ args.options.edgeMonzos = <<>>) =>
       /\ ~result.error
       /\ result.edges = <<>>
       /\ Len(result.vertices) = Len(args.monzos)
       /\ \A k \in DOMAIN result.vertices : result.vertices[k].index = <<k - 1>>

\* spanLattice with maxDistance 0 and no edgeMonzos on two monzos whose
\* positions are one step of a used axis apart.
C5_Witness ==
  /\ SpanDone /\ args.options.maxDistance = <<0>> /\ args.options.edgeMonzos = <<>>
  /\ Len(args.monzos) = 2
  /\ args.options.horizontalCoordinates = <<0, 1>>
  /\ args.options.verticalCoordinates = <<0, 0>>
  /\ args.monzos[1] = <<1, 0>> /\ args.monzos[2] = <<0, 1>>

\* The axes some mapping of the call uses, in ascending order.
RECURSIVE UsedAxesFrom(_, _)
UsedAxesFrom(options, i) ==
  IF i > Max(Len(options.horizontalCoordinates), Len(options.verticalCoordinates))
  THEN <<>>
  ELSE (IF At(options.horizontalCoordinates, i) # 0
           \/ At(options.verticalCoordinates, i) # 0
        THEN <<i>> ELSE <<>>)
       \o UsedAxesFrom(options, i + 1)

UsedAxes(options) == UsedAxesFrom(options, 1)

\* The screen coordinate of a projected vector p: entry n of p is the
\* exponent of the n-th used axis.
RECURSIVE ProjectedCoordinate(_, _, _, _)
ProjectedCoordinate(p, used, coordinates, n) ==
  IF n = 0 THEN 0
  ELSE At(p, n) * At(coordinates, At(used, n))
       + ProjectedCoordinate(p, used, coordinates, n - 1)

\* The screen coordinate of an input monzo.
RECURSIVE Coordinate(_, _, _)
Coordinate(m, coordinates, k) ==
  IF k = 0 THEN 0 ELSE At(m, k) * At(coordinates, k) + Coordinate(m, coordinates, k - 1)

\* What connect returns for the projected inputs of the spanLattice call.
SpanConnected ==
  connect(project2D(args.monzos, args.options), RequestedDistance)

\* C6: the vertex list holds the n inputs, vertex k with index k and the
\* coordinates of monzo k, then the a auxiliaries, without index, at
\* the position of each synthesized vector in discovery order; an omitted
\* maxDistance means 1, and then a = 0.
C6_Vertices ==
  SpanDone =>
    LET n == Len(args.monzos)
        aux == SpanConnected.connectingMonzos
        used == UsedAxes(args.options)
        h == args.options.horizontalCoordinates
        v == args.options.verticalCoordinates
    IN /\ Len(result.vertices) = n + Len(aux)
       /\ \A k \in 1..n :
            result.vertices[k] =
              [index |-> <<k - 1>>,
               x |-> Coordinate(args.monzos[k], h, Len(args.monzos[k])),
               y |-> Coordinate(args.monzos[k], v, Len(args.monzos[k]))]
       /\ \A k \in 1..Len(aux) :
            result.vertices[n + k] =
              [index |-> <<>>,
               x |-> ProjectedCoordinate(aux[k], used, h, Len(aux[k])),
               y |-> ProjectedCoordinate(aux[k], used, v, Len(aux[k]))]
       /\ args.options.maxDistance = <<>> => Len(result.vertices) = n

\* Two inputs bridged by an auxiliary whose position depends on a used axis
\* that follows an unused one.
C6_Witness ==
  /\ SpanDone /\ args.options.maxDistance = <<2>>
  /\ Len(args.monzos) = 2 /\ Len(result.vertices) = 3
  /\ args.options.horizontalCoordinates = <<0, 1>>
  /\ args.options.verticalCoordinates \in {<<>>, <<0>>, <<0, 2>>}
  /\ result.vertices[3].index = <<>> /\ result.vertices[3].x # 0

\* The signed custom displacements on the used axes: edge monzo n, and its
\* negation as number Len(ems) + n.
SignedEdgeMonzo(ems, used, n) ==
  LET m == IF n <= Len(ems) THEN ems[n] ELSE ems[n - Len(ems)]
      sign == IF n <= Len(ems) THEN 1 ELSE -1
  IN [k \in DOMAIN used |-> sign * At(m, used[k])]

\* Vertices i < j of the combined list (projected inputs, then auxiliaries)
\* and a signed edge monzo equal to their exact difference.
CustomMatchesOf(combined, ems, used) ==
  {t \in (DOMAIN combined) \X (DOMAIN combined) \X (1..(2 * Len(ems))) :
     /\ t[1] < t[2]
     /\ LET signed == SignedEdgeMonzo(ems, used, t[3]) IN
        \A k \in 1..(MaxLen + 1) :
          At(combined[t[1]], k) - At(combined[t[2]], k) = At(signed, k)}

CustomMatches ==
  CustomMatchesOf(project2D(args.monzos, args.options)
                    \o SpanConnected.connectingMonzos,
                  args.options.edgeMonzos[1], UsedAxes(args.options))

\* The edge of a match.
CustomEdgeOf(t) ==
  LET v1 == result.vertices[t[1]]
      v2 == result.vertices[t[2]]
  IN [x1 |-> v1.x, y1 |-> v1.y, x2 |-> v2.x, y2 |-> v2.y,
      type |-> IF t[1] <= Len(args.monzos) /\ t[2] <= Len(args.monzos)
               THEN "custom" ELSE "auxiliary"]

\* The edges that follow the Connection edges.
ExtraEdges ==
  SubSeq(result.edges, Len(SpanConnected.connections) + 1, Len(result.edges))

\* C7: with edgeMonzos and without merging, the edges added to the Connection
\* edges are one edge per vertex pair i < j and signed projected edge monzo
\* that equals the pair's exact difference, typed 'custom' between inputs
\* and 'auxiliary' otherwise.
C7_CustomEdges ==
  (SpanDone /\ args.options.edgeMonzos # <<>> /\ ~args.options.mergeEdges) =>
    LET extra == ExtraEdges
        matches == CustomMatches
        expected == {<<t, CustomEdgeOf(t)>> : t \in matches}
    IN /\ Len(extra) = Cardinality(matches)
       /\ \A e \in Range(extra) :
            Cardinality({n \in DOMAIN extra : extra[n] = e})
              = Cardinality({p \in expected : p[2] = e})

\* A call whose extra edges hold a custom edge that matches a negated edge
\* monzo and an auxiliary edge.
C7_Witness ==
  /\ SpanDone /\ args.options.edgeMonzos # <<>> /\ ~args.options.mergeEdges
  /\ \E t \in CustomMatches :
       t[3] > Len(args.options.edgeMonzos[1]) /\ CustomEdgeOf(t).type = "custom"
  /\ \E n \in DOMAIN ExtraEdges : ExtraEdges[n].type = "auxiliary"
  /\ \E n \in DOMAIN ExtraEdges : ExtraEdges[n].x1 # ExtraEdges[n].x2

(***************************************************************************)
(* project and unproject called on a batch of vectors, alone and as a      *)
(* round trip, in their two-mapping and their list-of-mappings versions.   *)
(***************************************************************************)
ProjectBatches == SeqsUpTo(Monzos, MaxProjectBatch)

NoVectors == [error |-> FALSE, monzos |-> <<>>]

InitProject ==
  /\ call = "none"
  /\ args \in [monzos : ProjectBatches,
               horizontalCoordinates : SeqsUpTo(HorizontalCoefficients, MaxLen),
               verticalCoordinates : SeqsUpTo(VerticalCoefficients, MaxLen)]
  /\ result = NoVectors
  /\ previous = NoVectors

\* The options object of the two-mapping versions.
OptionsOf(a) ==
  [horizontalCoordinates |-> a.horizontalCoordinates,
   verticalCoordinates |-> a.verticalCoordinates]

\* The mappings list of the three-mapping callers (lattice-3d.ts:138-142).
CoordssOf(a, depthwise) ==
  <<a.verticalCoordinates, a.horizontalCoordinates, depthwise>>

CallProject2D ==
  /\ call = "none"
  /\ call' = "project2D"
  /\ args' = [monzos |-> args.monzos,
              coordss |-> <<args.horizontalCoordinates, args.verticalCoordinates>>]
  /\ result' = [error |-> FALSE, monzos |-> project2D(args.monzos, OptionsOf(args))]
  /\ UNCHANGED previous

CallUnproject2D ==
  /\ call = "none"
  /\ call' = "unproject2D"
  /\ args' = [monzos |-> args.monzos,
              coordss |-> <<args.horizontalCoordinates, args.verticalCoordinates>>]
  /\ result' = [error |-> FALSE, monzos |-> unproject2D(args.monzos, OptionsOf(args))]
  /\ UNCHANGED previous

CallRoundTrip2D ==
  /\ call = "none"
  /\ call' = "roundTrip2D"
  /\ args' = [monzos |-> args.monzos,
              coordss |-> <<args.horizontalCoordinates, args.verticalCoordinates>>]
  /\ result' = [error |-> FALSE,
                monzos |-> unproject2D(project2D(args.monzos, OptionsOf(args)),
                                       OptionsOf(args))]
  /\ UNCHANGED previous

CallProject ==
  /\ call = "none"
  /\ \E depthwise \in SeqsUpTo(DepthwiseCoefficients, MaxDepthLen) :
       /\ call' = "project"
       /\ args' = [monzos |-> args.monzos, coordss |-> CoordssOf(args, depthwise)]
       /\ result' = [error |-> FALSE,
                     monzos |-> project(args.monzos, CoordssOf(args, depthwise))]
  /\ UNCHANGED previous

CallUnproject ==
  /\ call = "none"
  /\ \E depthwise \in SeqsUpTo(DepthwiseCoefficients, MaxDepthLen) :
       /\ call' = "unproject"
       /\ args' = [monzos |-> args.monzos, coordss |-> CoordssOf(args, depthwise)]
       /\ result' = [error |-> FALSE,
                     monzos |-> unproject(args.monzos, CoordssOf(args, depthwise))]
  /\ UNCHANGED previous

CallRoundTrip ==
  /\ call = "none"
  /\ \E depthwise \in SeqsUpTo(DepthwiseCoefficients, MaxDepthLen) :
       LET coordss == CoordssOf(args, depthwise) IN
       /\ call' = "roundTrip"
       /\ args' = [monzos |-> args.monzos, coordss |-> coordss]
       /\ result' = [error |-> FALSE,
                     monzos |-> unproject(project(args.monzos, coordss), coordss)]
  /\ UNCHANGED previous

NextProject ==
  \/ CallProject2D
  \/ CallUnproject2D
  \/ CallRoundTrip2D
  \/ CallProject
  \/ CallUnproject
  \/ CallRoundTrip

SpecProject == InitProject /\ [][NextProject]_vars

(***************************************************************************)
(* mergeEdges called on a list of edges, and again on what it returned.    *)
(***************************************************************************)
MergeTypes == {"primary", "custom"}

GridEdges ==
  [x1 : 0..MaxX, y1 : 0..MaxY, x2 : 0..MaxX, y2 : 0..MaxY, type : MergeTypes]

NoEdges == [error |-> FALSE, edges |-> <<>>]

InitMerge ==
  /\ call = "none"
  /\ args \in [edges : SeqsUpTo(GridEdges, MaxEdges)]
  /\ result = NoEdges
  /\ previous = NoEdges

CallMergeEdges ==
  /\ call = "none"
  /\ call' = "mergeEdges"
  /\ result' = [error |-> FALSE, edges |-> mergeEdges(args.edges)]
  /\ UNCHANGED <<args, previous>>

CallMergeEdgesAgain ==
  /\ call = "mergeEdges"
  /\ call' = "mergeEdgesAgain"
  /\ previous' = result
  /\ result' = [error |-> FALSE, edges |-> mergeEdges(result.edges)]
  /\ UNCHANGED args

NextMerge == CallMergeEdges \/ CallMergeEdgesAgain

SpecMerge == InitMerge /\ [][NextMerge]_vars

(***************************************************************************)
(* Properties of project and unproject.                                    *)
(***************************************************************************)
\* The longest of the mappings.
MappingLimit(coordss) ==
  LET lens == {Len(coordss[c]) : c \in DOMAIN coordss}
  IN CHOOSE x \in lens : \A y \in lens : y <= x

\* Some mapping has a nonzero coefficient on axis k.
UsedAxis(coordss, k) == \E c \in DOMAIN coordss : At(coordss[c], k) # 0

\* The vector truncated to the limit with its unused axes zeroed.
Restored(m, coordss) ==
  [k \in 1..MappingLimit(coordss) |-> IF UsedAxis(coordss, k) THEN At(m, k) ELSE 0]

EqualUpToZeros(a, b) ==
  \A k \in 1..Max(Len(a), Len(b)) : At(a, k) = At(b, k)

AllZero(coordss) == \A k \in 1..MappingLimit(coordss) : ~UsedAxis(coordss, k)

\* C9: unproject(project(V)) gives each vector back truncated to the limit
\* with its unused axes zeroed, up to trailing zeros; with all-zero mappings
\* project gives empty vectors and unproject of empty vectors gives limit
\* zeros; unproject of an empty batch is an empty batch.
C9_RoundTrip ==
  /\ call \in {"roundTrip", "roundTrip2D"} =>
       /\ Len(result.monzos) = Len(args.monzos)
       /\ \A n \in DOMAIN args.monzos :
            EqualUpToZeros(result.monzos[n], Restored(args.monzos[n], args.coordss))
  /\ (call \in {"project", "project2D"} /\ AllZero(args.coordss)) =>
       /\ Len(result.monzos) = Len(args.monzos)
       /\ \A n \in DOMAIN args.monzos : result.monzos[n] = <<>>
  /\ call \in {"unproject", "unproject2D"} =>
       /\ Len(result.monzos) = Len(args.monzos)
       /\ AllZero(args.coordss) =>
            \A n \in DOMAIN args.monzos :
              args.monzos[n] = <<>> =>
                result.monzos[n] = Zeros(MappingLimit(args.coordss))

\* A round trip of a ragged batch through mappings with an unused axis
\* between two used ones: a value on the unused axis is zeroed and a value
\* behind it returns to its column.
C9_Witness ==
  /\ call = "roundTrip"
  /\ Len(args.monzos) = 2
  /\ Len(args.monzos[1]) = 3 /\ Len(args.monzos[2]) = 1
  /\ UsedAxis(args.coordss, 1) /\ ~UsedAxis(args.coordss, 2)
  /\ UsedAxis(args.coordss, 3)
  /\ args.monzos[1][2] # 0 /\ args.monzos[1][3] # 0
  /\ result.monzos[1] = <<args.monzos[1][1], 0, args.monzos[1][3]>>

(***************************************************************************)
(* Properties of mergeEdges.                                               *)
(***************************************************************************)
\* C10: merging the list mergeEdges returned gives that list again.
C10_Idempotent ==
  call = "mergeEdgesAgain" => result.edges = previous.edges

\* A second merge of what three edges of one type merged to: a zero-length
\* edge and two edges that branch from its point, one of which it absorbed.
C10_Witness ==
  /\ call = "mergeEdgesAgain"
  /\ Len(args.edges) = 3
  /\ \A n \in 1..3 : args.edges[n].x1 = args.edges[1].x1
                     /\ args.edges[n].y1 = args.edges[1].y1
                     /\ args.edges[n].type = args.edges[1].type
  /\ args.edges[1].x2 = args.edges[1].x1 /\ args.edges[1].y2 = args.edges[1].y1
  /\ args.edges[2].y2 = args.edges[2].y1 /\ args.edges[2].x2 > args.edges[2].x1
  /\ args.edges[3].x2 = args.edges[3].x1 /\ args.edges[3].y2 > args.edges[3].y1
  /\ Len(result.edges) = 2

(***************************************************************************)
(* spanLattice called on a batch, and again on a batch that differs from   *)
(* it in one exponent of an axis that no mapping uses.                     *)
(***************************************************************************)
\* The custom displacements of the calls: a step of the second axis and a
\* diagonal.
CustomSteps == <<<<0, 1>>, <<1, -1>>>>

\* The monzos that differ from m on axis k only: another exponent there, or
\* the exponent of a last axis k absent in one and present in the other.
VariantsOf(m, k) ==
  {w \in LatticeMonzos :
     /\ w # m
     /\ \/ Len(w) = Len(m) /\ k <= Len(m)
        \/ {Len(w), Len(m)} = {k - 1, k}
     /\ \A a \in 1..Max(Len(w), Len(m)) : a # k => At(w, a) = At(m, a)}

CallSpanLatticeFirst ==
  /\ call = "none"
  /\ \E maxDistance \in Optional(0..MaxDistanceArg),
        edgeMonzos \in Optional({CustomSteps}),
        merge \in BOOLEAN :
       LET options == [horizontalCoordinates |-> args.horizontalCoordinates,
                       verticalCoordinates |-> args.verticalCoordinates,
                       maxDistance |-> maxDistance,
                       edgeMonzos |-> edgeMonzos,
                       mergeEdges |-> merge]
       IN /\ call' = "spanLattice"
          /\ args' = [monzos |-> args.monzos, options |-> options,
                      original |-> args.monzos]
          /\ result' = spanLattice(args.monzos, options)
  /\ UNCHANGED previous

CallSpanLatticeVariant ==
  /\ call = "spanLattice"
  /\ \E n \in DOMAIN args.monzos, k \in 1..MaxCoordLen :
       /\ ~eitherCoordinate(args.options, k)
       /\ \E w \in VariantsOf(args.monzos[n], k) :
            LET variant == [args.monzos EXCEPT ![n] = w] IN
            /\ call' = "spanLatticeVariant"
            /\ args' = [monzos |-> variant, options |-> args.options,
                        original |-> args.monzos]
            /\ previous' = result
            /\ result' = spanLattice(variant, args.options)

NextUnused == CallSpanLatticeFirst \/ CallSpanLatticeVariant

SpecUnused == InitLattice /\ [][NextUnused]_vars

(***************************************************************************)
(* Properties of spanLattice on axes that no mapping uses.                 *)
(***************************************************************************)
\* The mappings of the call.
SpanMappings ==
  <<args.options.horizontalCoordinates, args.options.verticalCoordinates>>

\* a and b are one unit step apart on one used axis and equal on the others.
UnitStepOnUsedAxis(a, b) ==
  \E k \in 1..MaxCoordLen :
    /\ UsedAxis(SpanMappings, k)
    /\ Abs(At(a, k) - At(b, k)) = 1
    /\ \A o \in 1..MaxCoordLen :
         (o # k /\ UsedAxis(SpanMappings, o)) => At(a, o) = At(b, o)

\* The point (px, py) lies on the segment of edge e.
OnSegment(e, px, py) ==
  /\ (e.x2 - e.x1) * (py - e.y1) = (e.y2 - e.y1) * (px - e.x1)
  /\ Min(e.x1, e.x2) <= px /\ px <= Max(e.x1, e.x2)
  /\ Min(e.y1, e.y2) <= py /\ py <= Max(e.y1, e.y2)

\* Inputs i and j are joined by a primary edge: the edge between their
\* vertices, or with merging a primary edge through both.
Joined(i, j) ==
  LET v1 == result.vertices[i]
      v2 == result.vertices[j]
  IN IF args.options.mergeEdges
     THEN \E n \in DOMAIN result.edges :
            /\ result.edges[n].type = "primary"
            /\ OnSegment(result.edges[n], v1.x, v1.y)
            /\ OnSegment(result.edges[n], v2.x, v2.y)
     ELSE \E n \in DOMAIN result.edges :
            result.edges[n] = [x1 |-> v1.x, y1 |-> v1.y, x2 |-> v2.x, y2 |-> v2.y,
                               type |-> "primary"]

\* C8: a batch that differs from another only in exponents of axes no
\* mapping uses spans the same vertices and edges, and inputs one unit step
\* apart on a used axis are joined whatever their other exponents are.
C8_UnusedAxes ==
  /\ call = "spanLatticeVariant" => result = previous
  /\ (call \in {"spanLattice", "spanLatticeVariant"} /\ ~result.error
        /\ RequestedDistance >= 1) =>
       \A i, j \in DOMAIN args.monzos :
         (i < j /\ UnitStepOnUsedAxis(args.monzos[i], args.monzos[j])) => Joined(i, j)

\* A second run with another exponent on the axis behind a one-axis
\* mapping, on two inputs one step apart that differ on that axis.
C8_Witness ==
  /\ call = "spanLatticeVariant" /\ ~result.error
  /\ args.options.horizontalCoordinates = <<1>>
  /\ Len(args.options.verticalCoordinates) <= 1
  /\ ~args.options.mergeEdges
  /\ Len(args.monzos) = 2
  /\ Len(args.monzos[1]) = 2 /\ Len(args.monzos[2]) = 2
  /\ args.monzos[1][2] # args.monzos[2][2]
  /\ Len(args.original[1]) = 2 /\ args.original[1][2] # args.monzos[1][2]
  /\ args.monzos[2][1] = args.monzos[1][1] + 1
  /\ Joined(1, 2)

(***************************************************************************)
(* mergeEdges called on a list of edges, and then on the same edges in     *)
(* another order or with the end points of one edge exchanged.             *)
(***************************************************************************)
\* The list with the edges at s and s + 1 exchanged.
Swapped(edges, s) ==
  [n \in DOMAIN edges |->
     IF n = s THEN edges[s + 1] ELSE IF n = s + 1 THEN edges[s] ELSE edges[n]]

\* The list with the end points of edge r exchanged.
Reversed(edges, r) ==
  [edges EXCEPT ![r] = [x1 |-> edges[r].x2, y1 |-> edges[r].y2,
                        x2 |-> edges[r].x1, y2 |-> edges[r].y1,
                        type |-> edges[r].type]]

CallMergeEdgesSwapped ==
  /\ call = "mergeEdges"
  /\ \E s \in 1..(Len(args.edges) - 1) :
       /\ call' = "mergeEdgesRearranged"
       /\ args' = [edges |-> Swapped(args.edges, s)]
       /\ previous' = result
       /\ result' = [error |-> FALSE, edges |-> mergeEdges(Swapped(args.edges, s))]

CallMergeEdgesReversed ==
  /\ call = "mergeEdges"
  /\ \E r \in DOMAIN args.edges :
       /\ call' = "mergeEdgesRearranged"
       /\ args' = [edges |-> Reversed(args.edges, r)]
       /\ previous' = result
       /\ result' = [error |-> FALSE, edges |-> mergeEdges(Reversed(args.edges, r))]

NextMergeOrder == CallMergeEdges \/ CallMergeEdgesSwapped \/ CallMergeEdgesReversed

SpecMergeOrder == InitMerge /\ [][NextMergeOrder]_vars

(***************************************************************************)
(* Properties of mergeEdges on rearranged lists.                           *)
(***************************************************************************)
\* How often e occurs in the list.
Occurrences(list, e) == Cardinality({n \in DOMAIN list : list[n] = e})

SameMultiset(a, b) ==
  /\ Len(a) = Len(b)
  /\ \A e \in Range(a) \cup Range(b) : Occurrences(a, e) = Occurrences(b, e)

\* C11: the edges mergeEdges returns for a list are, as a multiset, the
\* edges it returns for the list with two neighbours exchanged or with the
\* end points of one edge exchanged (every permutation and reversal is a
\* sequence of such steps).
C11_OrderIndependent ==
  call = "mergeEdgesRearranged" => SameMultiset(result.edges, previous.edges)

(***************************************************************************)
(* Properties of mergeEdges on chains.                                     *)
(***************************************************************************)
\* The canonically oriented input of the call.
OrientedInput == [n \in DOMAIN args.edges |-> orient(args.edges[n])]

RECURSIVE SumDx(_, _)
SumDx(list, n) ==
  IF n = 0 THEN 0 ELSE (list[n].x2 - list[n].x1) + SumDx(list, n - 1)

RECURSIVE SumDy(_, _)
SumDy(list, n) ==
  IF n = 0 THEN 0 ELSE (list[n].y2 - list[n].y1) + SumDy(list, n - 1)

Collinear(a, b) == (a.x2 - a.x1) * (b.y2 - b.y1) = (b.x2 - b.x1) * (a.y2 - a.y1)

\* The input edges of the set S, taken in some order, form a chain of
\* same-type collinear edges from the start of e to its end.
IsChainOf(S, e) ==
  /\ S # {}
  /\ \A n \in S : OrientedInput[n].type = e.type
  /\ \A n, m \in S : Collinear(OrientedInput[n], OrientedInput[m])
  /\ \E q \in [1..Cardinality(S) -> S] :
       /\ \A n \in S : \E k \in DOMAIN q : q[k] = n
       /\ OrientedInput[q[1]].x1 = e.x1 /\ OrientedInput[q[1]].y1 = e.y1
       /\ OrientedInput[q[Cardinality(S)]].x2 = e.x2
       /\ OrientedInput[q[Cardinality(S)]].y2 = e.y2
       /\ \A k \in 1..(Cardinality(S) - 1) :
            /\ OrientedInput[q[k + 1]].x1 = OrientedInput[q[k]].x2
            /\ OrientedInput[q[k + 1]].y1 = OrientedInput[q[k]].y2

\* C12: the input edges can be dealt to the output edges, each to exactly
\* one, so that every output edge is the concatenation of a chain of the
\* same-type collinear input edges dealt to it, and the displacements of
\* the output add up to those of the canonically oriented input.
C12_ChainsAndDisplacement ==
  call = "mergeEdges" =>
    /\ \E f \in [DOMAIN OrientedInput -> DOMAIN result.edges \cup {0}] :
         /\ \A n \in DOMAIN OrientedInput : f[n] # 0
         /\ \A o \in DOMAIN result.edges :
              IsChainOf({n \in DOMAIN OrientedInput : f[n] = o}, result.edges[o])
    /\ SumDx(result.edges, Len(result.edges)) = SumDx(OrientedInput, Len(OrientedInput))
    /\ SumDy(result.edges, Len(result.edges)) = SumDy(OrientedInput, Len(OrientedInput))

(***************************************************************************)
(* mergeEdges3D called on a list of edges.                                 *)
(***************************************************************************)
GridEdges3D ==
  [x1 : 0..MaxX3D, y1 : 0..MaxY3D, z1 : 0..MaxZ3D,
   x2 : 0..MaxX3D, y2 : 0..MaxY3D, z2 : 0..MaxZ3D, type : MergeTypes]

InitMerge3D ==
  /\ call = "none"
  /\ args \in [edges : SeqsUpTo(GridEdges3D, MaxEdges3D)]
  /\ result = NoEdges
  /\ previous = NoEdges

CallMergeEdges3D ==
  /\ call = "none"
  /\ call' = "mergeEdges3D"
  /\ result' = [error |-> FALSE, edges |-> mergeEdges3D(args.edges)]
  /\ UNCHANGED <<args, previous>>

NextMerge3D == CallMergeEdges3D

SpecMerge3D == InitMerge3D /\ [][NextMerge3D]_vars

(***************************************************************************)
(* Properties of mergeEdges3D.                                             *)
(***************************************************************************)
\* Edge e starts at the point end, has the type, and is collinear with the
\* direction d on every coordinate plane.
FitsChain3D(e, end, type, d) ==
  LET de == <<e.x2 - e.x1, e.y2 - e.y1, e.z2 - e.z1>> IN
  /\ e.x1 = end[1] /\ e.y1 = end[2] /\ e.z1 = end[3]
  /\ e.type = type
  /\ de[1] * d[2] = d[1] * de[2]
  /\ de[1] * d[3] = d[1] * de[3]
  /\ de[2] * d[3] = d[2] * de[3]

\* The end a chain reaches, and the edges it takes, when it absorbs from
\* edge j on every edge that fits.
RECURSIVE FittingChain3D(_, _, _, _, _, _)
FittingChain3D(list, j, end, type, d, taken) ==
  IF j > Len(list) THEN [end |-> end, taken |-> taken]
  ELSE IF FitsChain3D(list[j], end, type, d)
    THEN FittingChain3D(list, j + 1, <<list[j].x2, list[j].y2, list[j].z2>>,
                        type, d, taken \cup {j})
    ELSE FittingChain3D(list, j + 1, end, type, d, taken)

\* The chains of the sorted list from edge i on.
RECURSIVE FittingChains3D(_, _, _)
FittingChains3D(list, i, taken) ==
  IF i > Len(list) THEN <<>>
  ELSE IF i \in taken THEN FittingChains3D(list, i + 1, taken)
  ELSE
    LET o == list[i]
        chain == FittingChain3D(list, i + 1, <<o.x2, o.y2, o.z2>>, o.type,
                                <<o.x2 - o.x1, o.y2 - o.y1, o.z2 - o.z1>>, taken)
    IN <<[x1 |-> o.x1, y1 |-> o.y1, z1 |-> o.z1, x2 |-> chain.end[1],
          y2 |-> chain.end[2], z2 |-> chain.end[3], type |-> o.type]>>
       \o FittingChains3D(list, i + 1, chain.taken)

\* C13: mergeEdges3D absorbs a later edge of its sorted list exactly when
\* the edge starts at the chain's end in x, y and z, has the chain's type and
\* is collinear with the chain's direction on every coordinate plane.
C13_AbsorbsExactlyFitting ==
  call = "mergeEdges3D" =>
    result.edges =
      FittingChains3D(sortByStart3D([n \in DOMAIN args.edges |->
                                       orient3D(args.edges[n])]), 1, {})

(***************************************************************************)
(* spanLattice called on a batch, and then spanLattice3D on the same batch *)
(* and options with an all-zero depthwise mapping.                         *)
(***************************************************************************)
CallSpanLattice3DFlat ==
  /\ call = "spanLattice"
  /\ \E len \in {Len(args.options.horizontalCoordinates),
                 Len(args.options.verticalCoordinates)} :
       LET options ==
             [horizontalCoordinates |-> args.options.horizontalCoordinates,
              verticalCoordinates |-> args.options.verticalCoordinates,
              depthwiseCoordinates |-> Zeros(len),
              maxDistance |-> args.options.maxDistance,
              edgeMonzos |-> args.options.edgeMonzos,
              mergeEdges |-> args.options.mergeEdges]
       IN /\ call' = "spanLattice3DFlat"
          /\ args' = [monzos |-> args.monzos, options |-> options]
          /\ previous' = result
          /\ result' = spanLattice3D(args.monzos, options)

NextFlat == CallSpanLatticeFirst \/ CallSpanLattice3DFlat

SpecFlat == InitLattice /\ [][NextFlat]_vars

(***************************************************************************)
(* Properties of spanLattice3D with an all-zero depthwise mapping.         *)
(***************************************************************************)
\* The 2D vertices and edges of 3D ones.
FlatVertices(vertices) ==
  [n \in DOMAIN vertices |->
     [index |-> vertices[n].index, x |-> vertices[n].x, y |-> vertices[n].y]]

FlatEdges(edges) ==
  [n \in DOMAIN edges |->
     [x1 |-> edges[n].x1, y1 |-> edges[n].y1, x2 |-> edges[n].x2,
      y2 |-> edges[n].y2, type |-> edges[n].type]]

\* C14: with an all-zero depthwise mapping spanLattice3D fails when
\* spanLattice fails, and otherwise returns the vertices and edges of
\* spanLattice in the same order, each with z coordinates 0.
C14_FlatIsSpanLattice ==
  call = "spanLattice3DFlat" =>
    /\ result.error = previous.error
    /\ FlatVertices(result.vertices) = previous.vertices
    /\ FlatEdges(result.edges) = previous.edges
    /\ \A n \in DOMAIN result.vertices : result.vertices[n].z = 0
    /\ \A n \in DOMAIN result.edges : result.edges[n].z1 = 0 /\ result.edges[n].z2 = 0

\* A flat 3D run at maxDistance 2 with custom edges and merging, in which
\* the edges to and from the auxiliary vertex were merged into one.
C14_Witness ==
  /\ call = "spanLattice3DFlat" /\ ~result.error
  /\ args.options.mergeEdges /\ args.options.edgeMonzos # <<>>
  /\ args.options.maxDistance = <<2>>
  /\ Len(result.vertices) = 3
  /\ \E n \in DOMAIN result.edges :
       /\ result.edges[n].type = "auxiliary"
       /\ Abs(result.edges[n].x2 - result.edges[n].x1)
            + Abs(result.edges[n].y2 - result.edges[n].y1) >= 2
       /\ result.edges[n].x1 = result.vertices[1].x
       /\ result.edges[n].x2 = result.vertices[2].x
       /\ result.vertices[1].x # result.vertices[2].x

(***************************************************************************)
(* modVal, src/src/index.ts:458-524.  A logarithm is the whole number      *)
(* logs[k] of units 1 / unit; products and quotients are exact.            *)
(***************************************************************************)
\* Math.sign
Sign(x) == IF x > 0 THEN 1 ELSE IF x < 0 THEN -1 ELSE 0

\* Math.round(p / q) for q > 0: halves round up.
RoundRatio(p, q) == (2 * p + q) \div (2 * q)

\* xen-dev-utils mmod: the remainder in 0 .. d - 1.
mmod(a, d) == a % d

allUnique(vector) ==
  \A i, j \in DOMAIN vector : i < j => vector[i] # vector[j]

\* logs.map(l => mmod(Math.round(l * normalizer), divisions)) for the
\* normalizer (divisions + sign * offset) / logs[0], offset = 0.5 * i / r.
gpvCandidate(logs, divisions, r, i, sign) ==
  [k \in DOMAIN logs |->
     mmod(RoundRatio(logs[k] * (2 * r * divisions + sign * i), 2 * r * logs[1]),
          divisions)]

\* The loop of lines 485-499 from i on.
RECURSIVE gpvSearch(_, _, _, _)
gpvSearch(logs, divisions, r, i) ==
  IF i >= r THEN [found |-> FALSE, modval |-> <<>>]
  ELSE IF allUnique(gpvCandidate(logs, divisions, r, i, 1))
    THEN [found |-> TRUE, modval |-> gpvCandidate(logs, divisions, r, i, 1)]
  ELSE IF i # 0 /\ allUnique(gpvCandidate(logs, divisions, r, i, -1))
    THEN [found |-> TRUE, modval |-> gpvCandidate(logs, divisions, r, i, -1)]
  ELSE gpvSearch(logs, divisions, r, i + 1)

\* The loop of lines 512-521 from j on: the step that replaces v.
RECURSIVE freeStep(_, _, _, _, _)
freeStep(v, sgn, divisions, reserved, j) ==
  IF 2 * j > divisions THEN v
  ELSE IF mmod(v + j * sgn, divisions) \notin reserved THEN v + j * sgn
  ELSE IF mmod(v - j * sgn, divisions) \notin reserved THEN v - j * sgn
  ELSE freeStep(v, sgn, divisions, reserved, j + 1)

\* One pass of the loop body of lines 503-522 for array index i.
forceStep(logs, unit, divisions, val, i) ==
  LET reserved == {mmod(val[j], divisions) : j \in 1..(i - 1)}
      sgn == Sign(logs[i] * divisions - unit * val[i])
  IN IF mmod(val[i], divisions) \notin reserved THEN val
     ELSE [val EXCEPT ![i] = freeStep(val[i], sgn, divisions, reserved, 0)]

\* The loop of lines 503-522 for the array indices lo .. hi in ascending
\* order: the passes for the lower half, then those for the upper half.
RECURSIVE force(_, _, _, _, _, _)
force(logs, unit, divisions, val, lo, hi) ==
  IF lo > hi \/ hi > Len(val) THEN val
  ELSE IF lo = hi THEN forceStep(logs, unit, divisions, val, lo)
  ELSE LET mid == (lo + hi) \div 2
           lower == force(logs, unit, divisions, val, lo, mid)
       IN force(logs, unit, divisions, lower, mid + 1, hi)

\* A length check that lets one logarithm too many pass.
modValThrowsLate(logs, divisions) == Len(logs) > divisions + 1

\* if (logs.length > divisions) throw
modValThrows(logs, divisions) == Len(logs) > divisions

modVal(logs, unit, divisions, searchResolution) ==
  IF modValThrows(logs, divisions) THEN [error |-> TRUE, modval |-> <<>>]
  ELSE
    LET gpv == gpvSearch(logs, divisions, searchResolution, 0)
        val == [k \in DOMAIN logs |-> RoundRatio(logs[k] * divisions, logs[1])]
        forced == force(logs, unit, divisions, val, 2, Len(val))
    IN IF gpv.found THEN [error |-> FALSE, modval |-> gpv.modval]
       ELSE [error |-> FALSE,
             modval |-> [k \in DOMAIN forced |-> mmod(forced[k], divisions)]]

(***************************************************************************)
(* scottDakota24 and primeRing72, src/src/index.ts:547-587, for given      *)
(* logarithms and rounded coordinates.                                     *)
(***************************************************************************)
\* SCOTT_DAKOTA_SINE (index.ts:150-156)
SCOTT_DAKOTA_SINE ==
  <<0, 5, 9, 12, 14, 16, 17, 16, 14, 12, 9, 5,
    0, -5, -9, -12, -14, -16, -17, -16, -14, -12, -9, -5>>

\* modVal(logs, 24)
ScottDakotaDivisions == 24

\* modVal(logs, 72)
PrimeRingDivisions == 72

\* Math.round(Math.cos((Math.PI * steps) / 36) * 36.7) for steps 0 .. 71
PrimeRingCosine ==
  <<37, 37, 36, 35, 34, 33, 32, 30, 28, 26, 24, 21, 18, 16, 13, 9, 6, 3,
    0, -3, -6, -9, -13, -16, -18, -21, -24, -26, -28, -30, -32, -33, -34, -35,
    -36, -37, -37, -37, -36, -35, -34, -33, -32, -30, -28, -26, -24, -21, -18,
    -16, -13, -9, -6, -3, 0, 3, 6, 9, 13, 16, 18, 21, 24, 26, 28, 30, 32, 33,
    34, 35, 36, 37>>

\* Math.round(Math.sin((Math.PI * steps) / 36) * 36.7) for steps 0 .. 71
PrimeRingSine ==
  <<0, 3, 6, 9, 13, 16, 18, 21, 24, 26, 28, 30, 32, 33, 34, 35, 36, 37,
    37, 37, 36, 35, 34, 33, 32, 30, 28, 26, 24, 21, 18, 16, 13, 9, 6, 3,
    0, -3, -6, -9, -13, -16, -18, -21, -24, -26, -28, -30, -32, -33, -34, -35,
    -36, -37, -37, -37, -36, -35, -34, -33, -32, -30, -28, -26, -24, -21, -18,
    -16, -13, -9, -6, -3>>

NoCoordinates ==
  [error |-> TRUE, horizontalCoordinates |-> <<>>, verticalCoordinates |-> <<>>]

scottDakota24(logs, unit) ==
  LET mv == modVal(logs, unit, ScottDakotaDivisions, 0) IN
  IF mv.error THEN NoCoordinates
  ELSE [error |-> FALSE,
        horizontalCoordinates |->
          [k \in DOMAIN mv.modval |->
             17 - SCOTT_DAKOTA_SINE[mmod(mv.modval[k] + 6, 24) + 1]],
        verticalCoordinates |->
          [k \in DOMAIN mv.modval |-> -SCOTT_DAKOTA_SINE[mv.modval[k] + 1]]]

primeRing72(logs, unit) ==
  LET mv == modVal(logs, unit, PrimeRingDivisions, 0) IN
  IF mv.error THEN NoCoordinates
  ELSE [error |-> FALSE,
        horizontalCoordinates |->
          [k \in DOMAIN mv.modval |-> 37 - PrimeRingCosine[mv.modval[k] + 1]],
        verticalCoordinates |->
          [k \in DOMAIN mv.modval |-> -PrimeRingSine[mv.modval[k] + 1]]]

(***************************************************************************)
(* modVal called on logarithms, and the presets called on the logarithms   *)
(* continued to about as many as the preset has divisions.                 *)
(***************************************************************************)
LogLists ==
  {logs \in SeqsUpTo((-1)..MaxLog, MaxLogs) : logs # <<>> => logs[1] > 0}

\* The logarithms repeated, each round MaxLog larger, up to count of them.
Continued(logs, count) ==
  IF logs = <<>> THEN <<>>
  ELSE [k \in 1..count |->
          logs[((k - 1) % Len(logs)) + 1] + MaxLog * ((k - 1) \div Len(logs))]

PresetCounts(divisions) ==
  (divisions - MaxPresetExcess)..(divisions + MaxPresetExcess)

NoModVal == [error |-> FALSE, modval |-> <<>>]

InitModVal ==
  /\ call = "none"
  /\ args \in [logs : LogLists, unit : 1..MaxLogUnit,
               divisions : (1..MaxDivisions) \cup {ScottDakotaDivisions, PrimeRingDivisions},
               searchResolution : 0..MaxSearchResolution]
  /\ result = NoModVal
  /\ previous = NoModVal

CallModVal ==
  /\ call = "none"
  /\ call' = "modVal"
  /\ result' = modVal(args.logs, args.unit, args.divisions, args.searchResolution)
  /\ UNCHANGED <<args, previous>>

CallScottDakota24 ==
  /\ call = "none"
  /\ args.divisions = ScottDakotaDivisions /\ args.searchResolution = 0
  /\ \E count \in PresetCounts(ScottDakotaDivisions) :
       /\ call' = "scottDakota24"
       /\ args' = [args EXCEPT !.logs = Continued(args.logs, count)]
       /\ result' = scottDakota24(Continued(args.logs, count), args.unit)
  /\ UNCHANGED previous

CallPrimeRing72 ==
  /\ call = "none"
  /\ args.divisions = PrimeRingDivisions /\ args.searchResolution = 0
  /\ \E count \in PresetCounts(PrimeRingDivisions) :
       /\ call' = "primeRing72"
       /\ args' = [args EXCEPT !.logs = Continued(args.logs, count)]
       /\ result' = primeRing72(Continued(args.logs, count), args.unit)
  /\ UNCHANGED previous

NextModVal == CallModVal \/ CallScottDakota24 \/ CallPrimeRing72

SpecModVal == InitModVal /\ [][NextModVal]_vars

(***************************************************************************)
(* Properties of modVal.                                                   *)
(***************************************************************************)
\* C15: for no more logarithms than divisions modVal returns as many
\* steps as logarithms, each in 0 .. divisions - 1, no two of them equal.
C15_DistinctResidues ==
  (call = "modVal" /\ Len(args.logs) <= args.divisions) =>
    /\ ~result.error
    /\ Len(result.modval) = Len(args.logs)
    /\ \A k \in DOMAIN result.modval :
         result.modval[k] \in 0..(args.divisions - 1)
    /\ \A i, j \in DOMAIN result.modval :
         i # j => result.modval[i] # result.modval[j]

\* C16: modVal fails and returns no mapping for more logarithms than
\* divisions, whatever searchResolution is; scottDakota24 fails for more
\* than 24 logarithms and primeRing72 for more than 72.
C16_TooManyLogsFail ==
  /\ (call = "modVal" /\ Len(args.logs) > args.divisions) =>
       result.error /\ result.modval = <<>>
  /\ (call = "scottDakota24" /\ Len(args.logs) > 24) =>
       /\ result.error
       /\ result.horizontalCoordinates = <<>> /\ result.verticalCoordinates = <<>>
  /\ (call = "primeRing72" /\ Len(args.logs) > 72) =>
       /\ result.error
       /\ result.horizontalCoordinates = <<>> /\ result.verticalCoordinates = <<>>

\* modVal with a GPV search on one logarithm more than divisions, whose
\* naive steps are pairwise distinct modulo divisions + 1.
C16_Witness ==
  /\ call = "modVal" /\ result.error
  /\ args.searchResolution = 2
  /\ Len(args.logs) = args.divisions + 1
  /\ Len(args.logs) = 3
  /\ \A i, j \in DOMAIN args.logs : i # j => args.logs[i] # args.logs[j]

(***************************************************************************)
(* spanGrid, src/src/index.ts:646-856.  The options are a record with the  *)
(* fields of GridOptions; an optional number is <<>> or <<n>>, edgeVectors *)
(* is <<>> or <<vectors>>, gridLines is <<>> or <<flags>>, and every loop  *)
(* runs from its state st over the positions lo .. hi of its index, lower  *)
(* half first, nothing being done once st.stopped (a break) holds.         *)
(***************************************************************************)
\* options.range ?? 100
DefaultRange == 100

\* options.maxVertices ?? 1000
DefaultMaxVertices == 1000

\* options.maxEdges ?? 2000
DefaultMaxEdges == 2000

OrElse(optional, fallback) == IF optional = <<>> THEN fallback ELSE optional[1]

\* The decimal digits of a position, as String(n) writes them.
RECURSIVE Decimal(_)
Decimal(n) == IF n < 10 THEN <<n>> ELSE Append(Decimal(n \div 10), n % 10)

\* a < b for strings of digits, by code units.
StringBefore(a, b) ==
  \E k \in 1..Len(b) :
    /\ Len(a) >= k - 1
    /\ \A m \in 1..(k - 1) : a[m] = b[m]
    /\ (Len(a) = k - 1 \/ a[k] < b[k])

\* idxs.sort() without a comparator: the elements in the order of their
\* strings.
sortDefault(idxs) ==
  LET S == Range(idxs) IN
  [n \in 1..Len(idxs) |->
     CHOOSE k \in S :
       Cardinality({m \in S : m = k \/ StringBefore(Decimal(m), Decimal(k))}) = n]

\* The positions 0 .. steps.length - 1 whose step is s, in the order they
\* are pushed.
pushedIndices(steps, s) ==
  LET S == {k \in 0..(Len(steps) - 1) : steps[k + 1] = s} IN
  [n \in 1..Cardinality(S) |->
     CHOOSE k \in S : Cardinality({m \in S : m <= k}) = n]

\* The map indices of lines 708-719.
gridIndices(steps, modulus) ==
  LET reduced == [k \in DOMAIN steps |-> mmod(steps[k], modulus)] IN
  [s \in Range(reduced) |-> sortDefault(pushedIndices(reduced, s))]

\* A viewport test that leaves the border out.
inViewOpen(x, y, o) == x > o.minX /\ x < o.maxX /\ y > o.minY /\ y < o.maxY

\* x >= minX && x <= maxX && y >= minY && y <= maxY
inView(x, y, o) == x >= o.minX /\ x <= o.maxX /\ y >= o.minY /\ y <= o.maxY

\* No generator is taken for degenerate.
degenerateNever(o) == FALSE

degenerate1(o) == o.delta1X = 0 /\ o.delta1Y = 0

degenerate2(o) == o.delta2X = 0 /\ o.delta2Y = 0

\* The body of the loops of lines 721-742 for the p-th pair (i, j).
searchStep(o, indices, range, maxVertices, st, p) ==
  LET i == (p \div (2 * range + 1)) - range
      j == (p % (2 * range + 1)) - range
      x == o.delta1X * i + o.delta2X * j
      y == o.delta1Y * i + o.delta2Y * j
      step == mmod(o.delta1 * i + o.delta2 * j, o.modulus)
  IN IF inView(x, y, o) /\ step \in DOMAIN indices
     THEN [vertices |->
             Append(st.vertices, [x |-> x, y |-> y, indices |-> indices[step]]),
           stopped |-> \/ Len(st.vertices) + 1 >= maxVertices
                       \/ degenerate1(o)
                       \/ degenerate2(o)]
     ELSE st

RECURSIVE search(_, _, _, _, _, _, _)
search(o, indices, range, maxVertices, st, lo, hi) ==
  IF lo > hi \/ st.stopped THEN st
  ELSE IF lo = hi THEN searchStep(o, indices, range, maxVertices, st, lo)
  ELSE LET mid == (lo + hi) \div 2
           lower == search(o, indices, range, maxVertices, st, lo, mid)
       IN search(o, indices, range, maxVertices, lower, mid + 1, hi)

gridVertices(steps, o) ==
  LET range == OrElse(o.range, DefaultRange) IN
  search(o, gridIndices(steps, o.modulus), range,
         OrElse(o.maxVertices, DefaultMaxVertices),
         [vertices |-> <<>>, stopped |-> FALSE],
         0, (2 * range + 1) * (2 * range + 1) - 1).vertices

customEdge(x1, y1, x2, y2) ==
  [x1 |-> x1, y1 |-> y1, x2 |-> x2, y2 |-> y2, type |-> "custom"]

\* The body of the loop of lines 757-768 for vertex j (from 1).
\* A run that grows at its end only.
extendForward(vertices, vx, vy, run, j) ==
  LET v == vertices[j]
  IN IF v.x - run.x2 = vx /\ v.y - run.y2 = vy
     THEN [run EXCEPT !.x2 = v.x, !.y2 = v.y, !.spent = @ \cup {j}]
     ELSE run

extendStep(vertices, vx, vy, run, j) ==
  LET v == vertices[j]
      forward ==
        IF v.x - run.x2 = vx /\ v.y - run.y2 = vy
        THEN [run EXCEPT !.x2 = v.x, !.y2 = v.y, !.spent = @ \cup {j}]
        ELSE run
  IN IF forward.x1 - v.x = vx /\ forward.y1 - v.y = vy
     THEN [forward EXCEPT !.x1 = v.x, !.y1 = v.y, !.spent = @ \cup {j}]
     ELSE forward

RECURSIVE extend(_, _, _, _, _, _)
extend(vertices, vx, vy, run, lo, hi) ==
  IF lo > hi \/ run.stopped THEN run
  ELSE IF lo = hi THEN extendStep(vertices, vx, vy, run, lo)
  ELSE LET mid == (lo + hi) \div 2
           lower == extend(vertices, vx, vy, run, lo, mid)
       IN extend(vertices, vx, vy, lower, mid + 1, hi)

\* The body of the loop of lines 749-776 for vertex i (from 1).
mergedStep(vertices, vx, vy, maxEdges, st, i) ==
  IF i \in st.spent THEN st
  ELSE
    LET v == vertices[i]
        run == extend(vertices, vx, vy,
                      [x1 |-> v.x, y1 |-> v.y, x2 |-> v.x, y2 |-> v.y,
                       spent |-> st.spent, stopped |-> FALSE],
                      i + 1, Len(vertices))
        edges == IF run.x1 # run.x2 \/ run.y1 # run.y2
                 THEN Append(st.edges, customEdge(run.x1, run.y1, run.x2, run.y2))
                 ELSE st.edges
    IN [edges |-> edges, spent |-> run.spent, stopped |-> Len(edges) >= maxEdges]

RECURSIVE mergedRuns(_, _, _, _, _, _, _)
mergedRuns(vertices, vx, vy, maxEdges, st, lo, hi) ==
  IF lo > hi \/ st.stopped THEN st
  ELSE IF lo = hi THEN mergedStep(vertices, vx, vy, maxEdges, st, lo)
  ELSE LET mid == (lo + hi) \div 2
           lower == mergedRuns(vertices, vx, vy, maxEdges, st, lo, mid)
       IN mergedRuns(vertices, vx, vy, maxEdges, lower, mid + 1, hi)

\* The loop of lines 747-777 from the n-th edge vector on.
RECURSIVE mergedCustom(_, _, _, _, _)
mergedCustom(vertices, edgeVectors, maxEdges, edges, n) ==
  IF n > Len(edgeVectors) THEN edges
  ELSE
    LET st == mergedRuns(vertices, edgeVectors[n][1], edgeVectors[n][2], maxEdges,
                         [edges |-> edges, spent |-> {}, stopped |-> FALSE],
                         1, Len(vertices))
    IN IF st.stopped THEN st.edges
       ELSE mergedCustom(vertices, edgeVectors, maxEdges, st.edges, n + 1)

\* evs.concat(evs.map(ev => ev.map(e => -e)))
withReversed(evs) == evs \o [n \in DOMAIN evs |-> [c \in DOMAIN evs[n] |-> -evs[n][c]]]

\* The body of the loops of lines 781-800 for the p-th triple of vertex i,
\* vertex j and vector k (all from 1); j <= i is no pass of the loop.
unmergedStep(vertices, evs, maxEdges, st, p) ==
  LET k == (p % Len(evs)) + 1
      j == ((p \div Len(evs)) % Len(vertices)) + 1
      i == (p \div (Len(evs) * Len(vertices))) + 1
      dx == vertices[i].x - vertices[j].x
      dy == vertices[i].y - vertices[j].y
  IN IF j > i /\ dx = evs[k][1] /\ dy = evs[k][2]
     THEN [edges |-> Append(st.edges,
                            customEdge(vertices[i].x, vertices[i].y,
                                       vertices[j].x, vertices[j].y)),
           stopped |-> Len(st.edges) + 1 >= maxEdges]
     ELSE st

RECURSIVE unmergedCustom(_, _, _, _, _, _)
unmergedCustom(vertices, evs, maxEdges, st, lo, hi) ==
  IF lo > hi \/ st.stopped THEN st
  ELSE IF lo = hi THEN unmergedStep(vertices, evs, maxEdges, st, lo)
  ELSE LET mid == (lo + hi) \div 2
           lower == unmergedCustom(vertices, evs, maxEdges, st, lo, mid)
       IN unmergedCustom(vertices, evs, maxEdges, lower, mid + 1, hi)

\* Lines 746-802.
gridCustomEdges(vertices, o, maxEdges) ==
  IF o.edgeVectors = <<>> THEN <<>>
  ELSE IF o.mergeEdges
    THEN mergedCustom(vertices, o.edgeVectors[1], maxEdges, <<>>, 1)
  ELSE LET evs == withReversed(o.edgeVectors[1]) IN
       unmergedCustom(vertices, evs, maxEdges,
                      [edges |-> <<>>, stopped |-> FALSE],
                      0, Len(vertices) * Len(vertices) * Len(evs) - 1).edges

\* The do-while loop of lines 661-665 entered with j: the j it ends with.
RECURSIVE gridlineEnter(_, _, _, _, _, _, _)
gridlineEnter(uX, uY, vX, vY, o, range, j) ==
  IF j + 1 <= range /\ ~inView(uX + vX * (j + 1), uY + vY * (j + 1), o)
  THEN gridlineEnter(uX, uY, vX, vY, o, range, j + 1)
  ELSE j + 1

\* The while loop of lines 672-676 entered with the point for j inside or
\* not: the j it ends with.
RECURSIVE gridlineLeave(_, _, _, _, _, _)
gridlineLeave(uX, uY, vX, vY, o, j) ==
  IF inView(uX + vX * j, uY + vY * j, o)
  THEN gridlineLeave(uX, uY, vX, vY, o, j + 1)
  ELSE j

\* gridline (lines 646-680): no edge, or one edge.
gridline(uX, uY, vX, vY, o) ==
  IF vX = 0 /\ vY = 0 THEN <<>>
  ELSE
    LET range == OrElse(o.range, DefaultRange)
        j0 == gridlineEnter(uX, uY, vX, vY, o, range, -range - 1)
        j1 == gridlineLeave(uX, uY, vX, vY, o, j0)
    IN IF j0 > range THEN <<>>
       ELSE <<[x1 |-> uX + vX * (j0 - 1), y1 |-> uY + vY * (j0 - 1),
               x2 |-> uX + vX * j1, y2 |-> uY + vY * j1, type |-> "gridline"]>>

\* The body of the loop of lines 805-822 for the p-th i.
gridLines1Step(o, flags, range, maxEdges, st, p) ==
  LET i == p - range IN
  IF Len(st.edges) >= maxEdges THEN [st EXCEPT !.stopped = TRUE]
  ELSE [edges |-> st.edges \o
                  (IF flags.delta1
                   THEN gridline(o.delta2X * i, o.delta2Y * i, o.delta1X, o.delta1Y, o)
                   ELSE <<>>),
        stopped |-> degenerate2(o)]

RECURSIVE gridLines1(_, _, _, _, _, _, _)
gridLines1(o, flags, range, maxEdges, st, lo, hi) ==
  IF lo > hi \/ st.stopped THEN st
  ELSE IF lo = hi THEN gridLines1Step(o, flags, range, maxEdges, st, lo)
  ELSE LET mid == (lo + hi) \div 2
           lower == gridLines1(o, flags, range, maxEdges, st, lo, mid)
       IN gridLines1(o, flags, range, maxEdges, lower, mid + 1, hi)

\* The body of the loop of lines 823-853 for the p-th i.
gridLines2Step(o, flags, range, maxEdges, st, p) ==
  LET i == p - range
      uX == o.delta1X * i
      uY == o.delta1Y * i
  IN IF Len(st.edges) >= maxEdges THEN [st EXCEPT !.stopped = TRUE]
     ELSE [edges |-> st.edges
                     \o (IF flags.delta2
                         THEN gridline(uX, uY, o.delta2X, o.delta2Y, o)
                         ELSE <<>>)
                     \o (IF flags.diagonal1
                         THEN gridline(uX, uY, o.delta1X - o.delta2X,
                                       o.delta1Y - o.delta2Y, o)
                         ELSE <<>>)
                     \o (IF flags.diagonal2
                         THEN gridline(uX, uY, o.delta1X + o.delta2X,
                                       o.delta1Y + o.delta2Y, o)
                         ELSE <<>>),
           stopped |-> degenerate1(o)]

RECURSIVE gridLines2(_, _, _, _, _, _, _)
gridLines2(o, flags, range, maxEdges, st, lo, hi) ==
  IF lo > hi \/ st.stopped THEN st
  ELSE IF lo = hi THEN gridLines2Step(o, flags, range, maxEdges, st, lo)
  ELSE LET mid == (lo + hi) \div 2
           lower == gridLines2(o, flags, range, maxEdges, st, lo, mid)
       IN gridLines2(o, flags, range, maxEdges, lower, mid + 1, hi)

\* Lines 804-854.
withGridLines(edges, o, maxEdges) ==
  IF o.gridLines = <<>> THEN edges
  ELSE
    LET range == OrElse(o.range, DefaultRange)
        first == gridLines1(o, o.gridLines[1], range, maxEdges,
                            [edges |-> edges, stopped |-> FALSE], 0, 2 * range)
    IN gridLines2(o, o.gridLines[1], range, maxEdges,
                  [edges |-> first.edges, stopped |-> FALSE], 0, 2 * range).edges

spanGrid(steps, o) ==
  LET vertices == gridVertices(steps, o)
      maxEdges == OrElse(o.maxEdges, DefaultMaxEdges)
  IN [vertices |-> vertices,
      edges |-> withGridLines(gridCustomEdges(vertices, o, maxEdges), o, maxEdges)]

(***************************************************************************)
(* spanGrid called on steps and options: for the vertices, with many       *)
(* steps, generators and viewports and no edges asked for.                 *)
(***************************************************************************)
\* The seed repeated in turn up to count steps.
Repeated(seed, count) == [k \in 1..count |-> seed[((k - 1) % Len(seed)) + 1]]

StepLists ==
  LET seeds == SeqsUpTo((-1)..MaxStep, MaxSeedSteps) IN
  seeds \cup {Repeated(seed, MaxSteps) : seed \in {q \in seeds : Len(q) = MaxSeedSteps}}

NoGrid == [vertices |-> <<>>, edges |-> <<>>]

VertexOptions ==
  [modulus : 1..MaxModulus,
   delta1 : 1..MaxDelta, delta1X : 0..1, delta1Y : 0..1,
   delta2 : 1..MaxDelta, delta2X : 0..1, delta2Y : (-1)..0,
   minX : (-1)..0, maxX : {1}, minY : {-1}, maxY : 0..1,
   edgeVectors : {<<>>}, gridLines : {<<>>}, mergeEdges : {FALSE},
   range : Optional(1..MaxRange),
   maxVertices : Optional(0..MaxCeiling),
   maxEdges : {<<>>}]

\* With range omitted the generators are the two axes and the steps few.
InitGridVertices ==
  /\ call = "none"
  /\ args \in [steps : StepLists, options : VertexOptions]
  /\ args.options.range = <<>> =>
       /\ Len(args.steps) = 1
       /\ args.options.delta1X = 1 /\ args.options.delta1Y = 0
       /\ args.options.delta2X = 0 /\ args.options.delta2Y = -1
       /\ args.options.delta1 = 1 /\ args.options.delta2 = 1
       /\ args.options.minX = 0 /\ args.options.maxY = 0
  /\ result = NoGrid
  /\ previous = NoGrid

CallSpanGrid ==
  /\ call = "none"
  /\ call' = "spanGrid"
  /\ result' = spanGrid(args.steps, args.options)
  /\ UNCHANGED <<args, previous>>

NextGrid == CallSpanGrid

SpecGridVertices == InitGridVertices /\ [][NextGrid]_vars

(***************************************************************************)
(* Properties of the vertices of spanGrid.                                 *)
(***************************************************************************)
GridPairs(o) ==
  LET range == OrElse(o.range, DefaultRange) IN
  ((-range)..range) \X ((-range)..range)

PositionsOf(steps, o, p) ==
  {k \in 0..(Len(steps) - 1) :
     steps[k + 1] % o.modulus = (o.delta1 * p[1] + o.delta2 * p[2]) % o.modulus}

\* The pairs (i, j) within range whose position is in the closed viewport
\* and whose step was asked for.
GridHits(steps, o) ==
  {p \in GridPairs(o) :
     /\ o.minX <= o.delta1X * p[1] + o.delta2X * p[2]
     /\ o.delta1X * p[1] + o.delta2X * p[2] <= o.maxX
     /\ o.minY <= o.delta1Y * p[1] + o.delta2Y * p[2]
     /\ o.delta1Y * p[1] + o.delta2Y * p[2] <= o.maxY
     /\ PositionsOf(steps, o, p) # {}}

IsVertexAt(v, steps, o, p) ==
  /\ v.x = o.delta1X * p[1] + o.delta2X * p[2]
  /\ v.y = o.delta1Y * p[1] + o.delta2Y * p[2]
  /\ v.indices # <<>>
  /\ Len(v.indices) = Cardinality(PositionsOf(steps, o, p))
  /\ Range(v.indices) = PositionsOf(steps, o, p)

PairBefore(p, q) == p[1] < q[1] \/ (p[1] = q[1] /\ p[2] < q[2])

CeilingNotReached(vs, o) == Len(vs) < OrElse(o.maxVertices, DefaultMaxVertices)

NoDegenerateGenerator(o) ==
  /\ o.delta1X # 0 \/ o.delta1Y # 0
  /\ o.delta2X # 0 \/ o.delta2Y # 0

VerticesAreHits(vs, steps, o, hits) ==
  /\ \A n \in DOMAIN vs : \E p \in hits : IsVertexAt(vs[n], steps, o, p)
  /\ (CeilingNotReached(vs, o) /\ NoDegenerateGenerator(o)) =>
       /\ Len(vs) = Cardinality(hits)
       /\ \A n \in DOMAIN vs :
            \E p \in hits :
              /\ Cardinality({q \in hits : PairBefore(q, p)}) = n - 1
              /\ IsVertexAt(vs[n], steps, o, p)

\* C17: every vertex of spanGrid is at the position of a pair (i, j) within
\* range that lies in the closed viewport and carries exactly the input
\* positions of that pair's step; short of the maxVertices ceiling and with
\* no degenerate generator the vertices are those of all such pairs, in
\* ascending i, then ascending j.
C17_VerticesAreHits ==
  call = "spanGrid" =>
    VerticesAreHits(result.vertices, args.steps, args.options,
                    GridHits(args.steps, args.options))

\* Three or more vertices short of the ceiling, one of them on the border
\* of the viewport and one carrying several positions, with a pair in the
\* viewport whose step was not asked for.
C17_Witness ==
  /\ call = "spanGrid"
  /\ Len(result.vertices) >= 3
  /\ CeilingNotReached(result.vertices, args.options)
  /\ NoDegenerateGenerator(args.options)
  /\ \E n \in DOMAIN result.vertices : result.vertices[n].x = args.options.maxX
  /\ \E n \in DOMAIN result.vertices : Len(result.vertices[n].indices) >= 2
  /\ \E p \in GridPairs(args.options) :
       /\ inView(args.options.delta1X * p[1] + args.options.delta2X * p[2],
                 args.options.delta1Y * p[1] + args.options.delta2Y * p[2],
                 args.options)
       /\ p \notin GridHits(args.steps, args.options)

\* C18: the indices of every vertex of spanGrid ascend as numbers.
C18_IndicesAscend ==
  call = "spanGrid" =>
    \A n \in DOMAIN result.vertices :
      \A a, b \in DOMAIN result.vertices[n].indices :
        a < b => result.vertices[n].indices[a] < result.vertices[n].indices[b]

\* C19: spanGrid returns no more than maxVertices vertices, 1000 when
\* maxVertices is omitted.
C19_AtMostMaxVertices ==
  call = "spanGrid" =>
    Len(result.vertices) <= OrElse(args.options.maxVertices, DefaultMaxVertices)

(***************************************************************************)
(* spanGrid called for its edges: few steps, the generators along the      *)
(* axes or degenerate, and every choice of edge vectors, merging, gridline *)
(* flags and maxEdges.                                                     *)
(***************************************************************************)
EdgeVectorLists == {<<<<1, 0>>>>, <<<<1, 0>>, <<0, -1>>>>, <<<<0, 0>>>>}

GridLineFlags ==
  [delta1 : BOOLEAN, delta2 : BOOLEAN, diagonal1 : BOOLEAN, diagonal2 : BOOLEAN]

EdgeOptions ==
  [modulus : 1..MaxModulus,
   delta1 : {1}, delta1X : 0..1, delta1Y : {0},
   delta2 : {1}, delta2X : {0}, delta2Y : (-1)..0,
   minX : {-1}, maxX : {1}, minY : {-1}, maxY : 0..1,
   edgeVectors : Optional(EdgeVectorLists),
   gridLines : Optional(GridLineFlags),
   mergeEdges : BOOLEAN,
   range : {<<n>> : n \in 1..MaxRange},
   maxVertices : {<<>>},
   maxEdges : Optional(0..MaxCeiling)]

InitGridEdges ==
  /\ call = "none"
  /\ args \in [steps : {<<0>>, <<0, 1>>}, options : EdgeOptions]
  /\ result = NoGrid
  /\ previous = NoGrid

SpecGridEdges == InitGridEdges /\ [][NextGrid]_vars

(***************************************************************************)
(* Properties of the edges of spanGrid.                                    *)
(***************************************************************************)
\* C20: spanGrid returns no more than maxEdges edges, custom edges and
\* gridlines together, 2000 when maxEdges is omitted.
C20_AtMostMaxEdges ==
  call = "spanGrid" =>
    Len(result.edges) <= OrElse(args.options.maxEdges, DefaultMaxEdges)

(***************************************************************************)
(* shortestEdge, src/src/index.ts:865-929.                                 *)
(***************************************************************************)
\* A search area that is the viewport itself.
inDoubledViewNotDoubled(x, y, o) == inView(x, y, o)

\* x >= 2 * minX && x <= 2 * maxX && y >= 2 * minY && y <= 2 * maxY
inDoubledView(x, y, o) ==
  x >= 2 * o.minX /\ x <= 2 * o.maxX /\ y >= 2 * o.minY /\ y <= 2 * o.maxY

\* The body of the loops of lines 885-906 for the p-th pair (i, j).
shortestSearchStep(o, step, range, maxVertices, st, p) ==
  LET i == (p \div (2 * range + 1)) - range
      j == (p % (2 * range + 1)) - range
      x == o.delta1X * i + o.delta2X * j
      y == o.delta1Y * i + o.delta2Y * j
  IN IF inDoubledView(x, y, o) /\ mmod(o.delta1 * i + o.delta2 * j, o.modulus) = step
     THEN [vertices |-> Append(st.vertices, [x |-> x, y |-> y]),
           stopped |-> \/ Len(st.vertices) + 1 >= maxVertices
                       \/ degenerate1(o)
                       \/ degenerate2(o)]
     ELSE st

RECURSIVE shortestSearch(_, _, _, _, _, _, _)
shortestSearch(o, step, range, maxVertices, st, lo, hi) ==
  IF lo > hi \/ st.stopped THEN st
  ELSE IF lo = hi THEN shortestSearchStep(o, step, range, maxVertices, st, lo)
  ELSE LET mid == (lo + hi) \div 2
           lower == shortestSearch(o, step, range, maxVertices, st, lo, mid)
       IN shortestSearch(o, step, range, maxVertices, lower, mid + 1, hi)

\* The body of the loop of lines 917-926 for vertex i (from 1); norm is
\* <<>> for Infinity.
shortestStep(vertices, st, i) ==
  LET dx == vertices[i].x
      dy == vertices[i].y
      l2 == dx * dx + dy * dy
  IN IF st.norm = <<>> \/ l2 < st.norm[1]
     THEN [norm |-> <<l2>>, shortest |-> <<dx, dy>>, stopped |-> FALSE]
     ELSE st

RECURSIVE shortestOf(_, _, _, _)
shortestOf(vertices, st, lo, hi) ==
  IF lo > hi \/ st.stopped THEN st
  ELSE IF lo = hi THEN shortestStep(vertices, st, lo)
  ELSE LET mid == (lo + hi) \div 2
           lower == shortestOf(vertices, st, lo, mid)
       IN shortestOf(vertices, lower, mid + 1, hi)

shortestEdge(step, o) ==
  LET range == OrElse(o.range, DefaultRange)
      vertices == shortestSearch(o, mmod(step, o.modulus), range,
                                 OrElse(o.maxVertices, DefaultMaxVertices),
                                 [vertices |-> <<>>, stopped |-> FALSE],
                                 0, (2 * range + 1) * (2 * range + 1) - 1).vertices
  IN IF vertices = <<>> THEN [error |-> TRUE, edge |-> <<>>]
     ELSE [error |-> FALSE,
           edge |-> shortestOf(vertices,
                               [norm |-> <<>>, shortest |-> <<>>, stopped |-> FALSE],
                               1, Len(vertices)).shortest]

(***************************************************************************)
(* shortestEdge called on a step and options.                              *)
(***************************************************************************)
NoShortestEdge == [error |-> FALSE, edge |-> <<>>]

\* With range omitted the generators are the two axes.
InitShortest ==
  /\ call = "none"
  /\ args \in [step : (-1)..MaxModulus, options : VertexOptions]
  /\ args.options.range = <<>> =>
       /\ args.options.delta1X = 1 /\ args.options.delta1Y = 0
       /\ args.options.delta2X = 0 /\ args.options.delta2Y = -1
       /\ args.options.delta1 = 1 /\ args.options.delta2 = 1
       /\ args.options.minX = 0 /\ args.options.maxY = 0
  /\ result = NoShortestEdge
  /\ previous = NoShortestEdge

CallShortestEdge ==
  /\ call = "none"
  /\ call' = "shortestEdge"
  /\ result' = shortestEdge(args.step, args.options)
  /\ UNCHANGED <<args, previous>>

NextShortest == CallShortestEdge

SpecShortest == InitShortest /\ [][NextShortest]_vars

(***************************************************************************)
(* Properties of shortestEdge.                                             *)
(***************************************************************************)
\* The positions of the pairs (i, j) within range that lie in the doubled
\* viewport and have the step asked for, with their pairs.
ShortestHits(step, o) ==
  {p \in GridPairs(o) :
     /\ 2 * o.minX <= o.delta1X * p[1] + o.delta2X * p[2]
     /\ o.delta1X * p[1] + o.delta2X * p[2] <= 2 * o.maxX
     /\ 2 * o.minY <= o.delta1Y * p[1] + o.delta2Y * p[2]
     /\ o.delta1Y * p[1] + o.delta2Y * p[2] <= 2 * o.maxY
     /\ (o.delta1 * p[1] + o.delta2 * p[2]) % o.modulus = step % o.modulus}

PositionAt(o, p) ==
  <<o.delta1X * p[1] + o.delta2X * p[2], o.delta1Y * p[1] + o.delta2Y * p[2]>>

SquaredNorm(v) == v[1] * v[1] + v[2] * v[2]

\* C21: shortestEdge fails, returning nothing, exactly when no pair within
\* range lies in the doubled viewport with the step asked for.
C21_FailsExactlyWhenNoHit ==
  call = "shortestEdge" =>
    /\ result.error <=> ShortestHits(args.step, args.options) = {}
    /\ result.error => result.edge = <<>>
    /\ ~result.error => Len(result.edge) = 2

\* A failure although a pair with the step asked for lies in the viewport,
\* outside the range, and although the step's class differs from the step.
C21_Witness ==
  /\ call = "shortestEdge" /\ result.error
  /\ args.step % args.options.modulus # args.step
  /\ \E p \in GridPairs([args.options EXCEPT !.range = <<MaxRange + 1>>]) :
       p \in ShortestHits(args.step, [args.options EXCEPT !.range = <<MaxRange + 1>>])

IsShortest(edge, o, hits) ==
  \E p \in hits :
    /\ edge = PositionAt(o, p)
    /\ \A q \in hits : SquaredNorm(PositionAt(o, q)) >= SquaredNorm(edge)
    /\ \A q \in hits :
         (SquaredNorm(PositionAt(o, q)) = SquaredNorm(edge) /\ PositionAt(o, q) # edge)
           => PairBefore(p, q)

\* C22: the displacement shortestEdge returns is the position of a pair
\* within range in the doubled viewport with the step asked for, none of
\* these pairs has a smaller squared norm, and of the positions of that
\* norm it is the first in ascending i, then j, whatever maxVertices is.
C22_ShortestOfAll ==
  (call = "shortestEdge" /\ ~result.error) =>
    IsShortest(result.edge, args.options, ShortestHits(args.step, args.options))

(***************************************************************************)
(* Properties of the auxiliaries of connect.                               *)
(***************************************************************************)
\* The axes on which a and b differ.
GapAxes(a, b) == {k \in 1..Max(Len(a), Len(b)) : At(a, k) # At(b, k)}

\* b, zero-extended to the length of the longer of a and b, shifted on
\* column k by the gap of a and b there.
ShiftedOn(a, b, k) ==
  [c \in 1..Max(Len(a), Len(b)) |->
     IF c = k THEN At(b, c) + (At(a, c) - At(b, c)) ELSE At(b, c)]

InExtended(monzo, extended) == \E e \in Range(extended) : monzosEqual(monzo, e)

BothIntermediates(monzos, extended) ==
  \A p, q \in DOMAIN monzos :
    (/\ p < q
     /\ Cardinality(GapAxes(monzos[p], monzos[q])) = 2
     /\ \A k \in GapAxes(monzos[p], monzos[q]) :
          Abs(At(monzos[p], k) - At(monzos[q], k)) = 1) =>
      \A k \in GapAxes(monzos[p], monzos[q]) :
        InExtended(ShiftedOn(monzos[p], monzos[q], k), extended)

\* C24: with maxDistance 2, for two inputs that differ by one step on
\* exactly two axes, adjacent or not, both intermediate vectors (the later
\* input shifted on one of the two axes) are among the inputs and
\* auxiliaries after connect.
C24_BothIntermediates ==
  (ConnectDone /\ args.maxDistance = 2) =>
    BothIntermediates(args.monzos, Extended)

NoDuplicateAuxiliary(monzos, connectingMonzos) ==
  /\ \A n \in DOMAIN connectingMonzos :
       \A p \in DOMAIN monzos : ~monzosEqual(connectingMonzos[n], monzos[p])
  /\ \A n, m \in DOMAIN connectingMonzos :
       n # m => ~monzosEqual(connectingMonzos[n], connectingMonzos[m])

\* C25: no auxiliary that connect synthesized is equal, the shorter vector
\* zero-extended, to an input or to another auxiliary.
C25_NoDuplicateAuxiliary ==
  ConnectDone => NoDuplicateAuxiliary(args.monzos, result.connectingMonzos)

\* An auxiliary was synthesized for two inputs two steps apart although a
\* third input lies one step from both.
C25_Witness ==
  /\ ConnectDone /\ args.maxDistance = 2
  /\ Len(result.connectingMonzos) >= 1
  /\ \E p, q, w \in DOMAIN args.monzos :
       /\ p < q
       /\ ManhattanDistance(args.monzos[p], args.monzos[q]) = 2
       /\ ManhattanDistance(args.monzos[p], args.monzos[w]) = 1
       /\ ManhattanDistance(args.monzos[w], args.monzos[q]) = 1

(***************************************************************************)
(* Properties of the forced steps of modVal.                               *)
(***************************************************************************)
NaiveStep(logs, divisions, i) == RoundRatio(logs[i] * divisions, logs[1])

\* The step of index i is its naive step when no earlier index has that
\* residue, otherwise the unused residue at the smallest displacement
\* j in 1 .. divisions / 2 from the naive step, +j * sgn before -j * sgn.
ForcedInOrder(logs, unit, divisions, modval, i) ==
  LET used == {modval[e] : e \in 1..(i - 1)}
      naive == NaiveStep(logs, divisions, i)
      sgn == Sign(logs[i] * divisions - unit * naive)
      plus(j) == (naive + j * sgn) % divisions
      minus(j) == (naive - j * sgn) % divisions
  IN IF naive % divisions \notin used THEN modval[i] = naive % divisions
     ELSE \E j \in 1..(divisions \div 2) :
            /\ \A n \in 1..(j - 1) : plus(n) \in used /\ minus(n) \in used
            /\ \/ plus(j) \notin used /\ modval[i] = plus(j)
               \/ plus(j) \in used /\ minus(j) \notin used /\ modval[i] = minus(j)

\* C26: with searchResolution 0 every index keeps its naive step unless an
\* earlier index has its residue, and then gets the unused residue at the
\* smallest displacement, in the direction of its residual first.
C26_SmallestDisplacement ==
  (/\ call = "modVal" /\ ~result.error
   /\ args.searchResolution = 0) =>
    \A i \in DOMAIN result.modval :
      ForcedInOrder(args.logs, args.unit, args.divisions, result.modval, i)

(***************************************************************************)
(* spanGrid called without merging and then, on the same steps and         *)
(* options, with mergeEdges set.                                           *)
(***************************************************************************)
EdgeVectorChoices == {<<1, 0>>, <<-1, 0>>, <<0, -1>>, <<1, -1>>, <<2, 0>>}

MergeOptions ==
  [modulus : 1..MaxModulus,
   delta1 : {1}, delta1X : {1}, delta1Y : {0},
   delta2 : 1..MaxDelta, delta2X : 0..1, delta2Y : (-1)..0,
   minX : {-1}, maxX : 1..2, minY : {-1}, maxY : {1},
   edgeVectors : {<<evs>> : evs \in SeqsUpTo(EdgeVectorChoices, MaxEdgeVectors)},
   gridLines : {<<>>},
   mergeEdges : {FALSE},
   range : {<<n>> : n \in 1..MaxRange},
   maxVertices : {<<>>},
   maxEdges : Optional(0..MaxCeiling)]

InitGridMerge ==
  /\ call = "none"
  /\ args \in [steps : {<<0>>, <<0, 1>>, <<1, -1>>}, options : MergeOptions]
  /\ result = NoGrid
  /\ previous = NoGrid

CallSpanGridMerged ==
  /\ call = "spanGrid"
  /\ call' = "spanGridMerged"
  /\ previous' = result
  /\ result' = spanGrid(args.steps, [args.options EXCEPT !.mergeEdges = TRUE])
  /\ UNCHANGED args

NextGridMerge == CallSpanGrid \/ CallSpanGridMerged

SpecGridMerge == InitGridMerge /\ [][NextGridMerge]_vars

(***************************************************************************)
(* Properties of the merged custom edges of spanGrid.                      *)
(***************************************************************************)
IndependentGenerators(o) == o.delta1X * o.delta2Y # o.delta1Y * o.delta2X

VertexPositions(vs) == {<<vs[n].x, vs[n].y>> : n \in DOMAIN vs}

CustomOf(edges) == {n \in DOMAIN edges : edges[n].type = "custom"}

Along(p, v, t) == <<p[1] + t * v[1], p[2] + t * v[2]>>

\* e runs from a vertex over t steps of v through vertices only, and no
\* vertex continues the run at either end.
IsMaximalRun(e, v, t, positions) ==
  /\ <<e.x2, e.y2>> = Along(<<e.x1, e.y1>>, v, t)
  /\ \A n \in 0..t : Along(<<e.x1, e.y1>>, v, n) \in positions
  /\ Along(<<e.x1, e.y1>>, v, -1) \notin positions
  /\ Along(<<e.x1, e.y1>>, v, t + 1) \notin positions

\* The unit segments of the runs that the merged edges are.
CoveredSegments(edges, evs, positions) ==
  UNION {{{Along(<<edges[n].x1, edges[n].y1>>, evs[k], m),
           Along(<<edges[n].x1, edges[n].y1>>, evs[k], m + 1)} : m \in 0..(t - 1)} :
           <<n, k, t>> \in {c \in CustomOf(edges) \X (DOMAIN evs) \X (1..Cardinality(positions)) :
                              IsMaximalRun(edges[c[1]], evs[c[2]], c[3], positions)}}

ConnectedPairs(edges) ==
  {{<<edges[n].x1, edges[n].y1>>, <<edges[n].x2, edges[n].y2>>} : n \in CustomOf(edges)}

LosslessFusion(merged, unmerged, evs, positions) ==
  /\ \A n \in CustomOf(merged) :
       \E k \in DOMAIN evs : \E t \in 1..Cardinality(positions) :
         IsMaximalRun(merged[n], evs[k], t, positions)
  /\ CoveredSegments(merged, evs, positions) = ConnectedPairs(unmerged)

EdgeCeilingNotReached(edges, o) == Len(edges) < OrElse(o.maxEdges, DefaultMaxEdges)

\* C27: for independent generators and ceilings not reached, every merged
\* custom edge of spanGrid is a maximal run of one edge vector through
\* vertices, and the unit segments of the merged edges are the vertex pairs
\* that spanGrid connects without merging.
C27_LosslessFusion ==
  (/\ call = "spanGridMerged"
   /\ IndependentGenerators(args.options)
   /\ CeilingNotReached(result.vertices, args.options)
   /\ EdgeCeilingNotReached(result.edges, args.options)
   /\ EdgeCeilingNotReached(previous.edges, args.options)) =>
    LosslessFusion(result.edges, previous.edges, args.options.edgeVectors[1],
                   VertexPositions(result.vertices))

\* A merged edge over two steps of an edge vector that points against the
\* order of the vertices, beside an edge of another vector.
C27_Witness ==
  /\ call = "spanGridMerged"
  /\ IndependentGenerators(args.options)
  /\ EdgeCeilingNotReached(result.edges, args.options)
  /\ EdgeCeilingNotReached(previous.edges, args.options)
  /\ Len(result.edges) >= 2
  /\ Len(previous.edges) > Len(result.edges)
  /\ \E n \in DOMAIN result.edges :
       /\ result.edges[n].x2 = result.edges[n].x1 - 2
       /\ result.edges[n].y2 = result.edges[n].y1
  /\ \E n \in DOMAIN result.edges : result.edges[n].y2 # result.edges[n].y1

(***************************************************************************)
(* gridline called as spanGrid calls it: the offset u is the i-th multiple *)
(* of one generator, for an i of the search range.                         *)
(***************************************************************************)
GridSteps == ((-MaxGridStep)..MaxGridStep) \X ((-MaxGridStep)..MaxGridStep)

Viewports ==
  [minX : (-MaxView)..0, maxX : 0..MaxView, minY : (-1)..0, maxY : 0..1,
   range : {<<n>> : n \in 1..MaxRange}]

InitGridline ==
  /\ call = "none"
  /\ args \in [i : (-MaxRange)..MaxRange, offset : GridSteps, v : GridSteps,
               options : Viewports]
  /\ Abs(args.i) <= args.options.range[1]
  /\ result = <<>>
  /\ previous = <<>>

CallGridline ==
  /\ call = "none"
  /\ call' = "gridline"
  /\ result' = gridline(args.offset[1] * args.i, args.offset[2] * args.i,
                        args.v[1], args.v[2], args.options)
  /\ UNCHANGED <<args, previous>>

NextGridline == CallGridline

SpecGridline == InitGridline /\ [][NextGridline]_vars

(***************************************************************************)
(* Properties of gridline.                                                 *)
(***************************************************************************)
\* The point of the line through u along v for j.
LinePoint(a, j) == <<a.offset[1] * a.i + a.v[1] * j, a.offset[2] * a.i + a.v[2] * j>>

OnLineInView(a, j) == inView(LinePoint(a, j)[1], LinePoint(a, j)[2], a.options)

InsideWithinRange(a) ==
  {j \in (-a.options.range[1])..a.options.range[1] : OnLineInView(a, j)}

LeastInside(a) == CHOOSE j \in InsideWithinRange(a) : \A k \in InsideWithinRange(a) : j <= k

\* A line leaves the viewport after at most as many steps as the viewport is
\* wide and high.
FirstOutsideAfter(a, j0) ==
  LET far == j0 + (a.options.maxX - a.options.minX) + (a.options.maxY - a.options.minY) + 1
      outside == {j \in (j0 + 1)..far : ~OnLineInView(a, j)}
  IN CHOOSE j \in outside : \A k \in outside : j <= k

GridlineEmitted(a) == a.v # <<0, 0>> /\ InsideWithinRange(a) # {}

RunsBetween(edge, a, j0, j1) ==
  /\ <<edge.x1, edge.y1>> = LinePoint(a, j0 - 1)
  /\ <<edge.x2, edge.y2>> = LinePoint(a, j1)
  /\ edge.type = "gridline"

\* C28: gridline emits an edge exactly when v is not zero and some j within
\* the range puts u + v*j in the viewport; the edge runs from u + v*(j0 - 1)
\* to u + v*j1, the points strictly between its endpoints are in the viewport
\* and both endpoints are outside it.
C28_EndpointsOutside ==
  call = "gridline" =>
    /\ (result # <<>>) <=> GridlineEmitted(args)
    /\ result # <<>> =>
         LET j0 == LeastInside(args)
             j1 == FirstOutsideAfter(args, j0)
         IN /\ RunsBetween(result[1], args, j0, j1)
            /\ \A j \in j0..(j1 - 1) : OnLineInView(args, j)
            /\ ~inView(result[1].x1, result[1].y1, args.options)
            /\ ~inView(result[1].x2, result[1].y2, args.options)

(***************************************************************************)
(* spanGrid and shortestEdge called on grids of which a generator may have *)
(* no displacement.                                                        *)
(***************************************************************************)
DegenerateOptions ==
  [modulus : 1..MaxModulus,
   delta1 : {1}, delta1X : 0..1, delta1Y : {0},
   delta2 : {1}, delta2X : {0}, delta2Y : (-1)..0,
   minX : {-1}, maxX : {1}, minY : {-1}, maxY : 0..1,
   edgeVectors : {<<>>},
   gridLines : Optional(GridLineFlags),
   mergeEdges : {FALSE},
   range : {<<n>> : n \in 1..MaxRange},
   maxVertices : Optional(1..MaxCeiling),
   maxEdges : {<<>>}]

InitDegenerate ==
  /\ call = "none"
  /\ args \in [steps : {<<0>>, <<0, 1>>}, step : 0..1, options : DegenerateOptions]
  /\ result = NoGrid
  /\ previous = NoGrid

NextDegenerate == CallSpanGrid \/ CallShortestEdge

SpecDegenerate == InitDegenerate /\ [][NextDegenerate]_vars

(***************************************************************************)
(* Properties of grids with a degenerate generator.                        *)
(***************************************************************************)
DegenerateGenerator(o) == ~NoDegenerateGenerator(o)

GridlinesOf(edges) == {n \in DOMAIN edges : edges[n].type = "gridline"}

\* The number of gridlines that a requested direction may have: one when the
\* generator of its offsets has no displacement.
GridlineLimit(requested, offsetX, offsetY, o) ==
  IF ~requested THEN 0
  ELSE IF offsetX = 0 /\ offsetY = 0 THEN 1
  ELSE 2 * OrElse(o.range, DefaultRange) + 1

GridlinesAllowed(o) ==
  IF o.gridLines = <<>> THEN 0
  ELSE GridlineLimit(o.gridLines[1].delta1, o.delta2X, o.delta2Y, o)
       + GridlineLimit(o.gridLines[1].delta2, o.delta1X, o.delta1Y, o)
       + GridlineLimit(o.gridLines[1].diagonal1, o.delta1X, o.delta1Y, o)
       + GridlineLimit(o.gridLines[1].diagonal2, o.delta1X, o.delta1Y, o)

FirstHit(hits) == CHOOSE p \in hits : \A q \in hits : p = q \/ PairBefore(p, q)

\* C29: with a generator of no displacement spanGrid returns at most one
\* vertex and at most one gridline for each requested direction whose offsets
\* are multiples of that generator, and shortestEdge fails only when no pair
\* has the step asked for, returning the position of the first such pair
\* otherwise.
C29_DegenerateStops ==
  /\ (call = "spanGrid" /\ DegenerateGenerator(args.options)) =>
       /\ Len(result.vertices) <= 1
       /\ Cardinality(GridlinesOf(result.edges)) <= GridlinesAllowed(args.options)
  /\ (call = "shortestEdge" /\ DegenerateGenerator(args.options)) =>
       LET hits == ShortestHits(args.step, args.options)
       IN /\ result.error => hits = {}
          /\ ~result.error => result.edge = PositionAt(args.options, FirstHit(hits))

\* One vertex and one gridline of the direction of the second generator on a
\* grid whose first generator has no displacement, where several pairs of
\* the range have a step of the list.
C29_Witness ==
  /\ call = "spanGrid"
  /\ degenerate1(args.options)
  /\ ~degenerate2(args.options)
  /\ args.options.maxVertices = <<>>
  /\ args.options.gridLines # <<>>
  /\ args.options.gridLines[1] =
       [delta1 |-> FALSE, delta2 |-> TRUE, diagonal1 |-> FALSE, diagonal2 |-> FALSE]
  /\ Cardinality(GridHits(args.steps, args.options)) > 1
  /\ Len(result.vertices) = 1
  /\ Cardinality(GridlinesOf(result.edges)) = 1

(***************************************************************************)
(* spanLattice and spanLattice3D called with and without edgeMonzos and    *)
(* merging.                                                                *)
(***************************************************************************)
EdgeLatticeOptions ==
  [horizontalCoordinates : {<<1>>, <<1, 0>>, <<1, 1>>},
   verticalCoordinates : {<<2>>, <<0, 2>>},
   depthwiseCoordinates : {<<>>, <<0, 3>>},
   maxDistance : {<<>>, <<2>>, <<MaxDistanceArg>>},
   edgeMonzos : Optional({<<<<0, 1>>>>, CustomSteps}),
   mergeEdges : BOOLEAN]

InitEdges ==
  /\ call = "none"
  /\ args \in [monzos : LatticeBatches, options : EdgeLatticeOptions]
  /\ result = NoResult
  /\ previous = NoResult

CallSpanLatticeEdges ==
  /\ call = "none"
  /\ call' = "spanLattice"
  /\ result' = spanLattice(args.monzos, args.options)
  /\ UNCHANGED <<args, previous>>

CallSpanLattice3DEdges ==
  /\ call = "none"
  /\ call' = "spanLattice3D"
  /\ result' = spanLattice3D(args.monzos, args.options)
  /\ UNCHANGED <<args, previous>>

NextEdges == CallSpanLatticeEdges \/ CallSpanLattice3DEdges

SpecEdges == InitEdges /\ [][NextEdges]_vars

(***************************************************************************)
(* Properties of the edges of spanLattice and spanLattice3D.               *)
(***************************************************************************)
PositionOf(v) == IF "z" \in DOMAIN v THEN <<v.x, v.y, v.z>> ELSE <<v.x, v.y>>

StartOf(e) == IF "z1" \in DOMAIN e THEN <<e.x1, e.y1, e.z1>> ELSE <<e.x1, e.y1>>

EndOf(e) == IF "z2" \in DOMAIN e THEN <<e.x2, e.y2, e.z2>> ELSE <<e.x2, e.y2>>

\* The same call without merging.
Unmerged ==
  IF call = "spanLattice"
  THEN spanLattice(args.monzos, [args.options EXCEPT !.mergeEdges = FALSE])
  ELSE spanLattice3D(args.monzos, [args.options EXCEPT !.mergeEdges = FALSE])

\* The Connections of the call.
ConnectionsOfCall ==
  connect(IF call = "spanLattice"
          THEN project2D(args.monzos, args.options)
          ELSE project(args.monzos, <<args.options.verticalCoordinates,
                                      args.options.horizontalCoordinates,
                                      args.options.depthwiseCoordinates>>),
          maxDistanceOf(args.options)).connections

EndpointsAreVertices(r) ==
  \A n \in DOMAIN r.edges :
    /\ \E k \in DOMAIN r.vertices : StartOf(r.edges[n]) = PositionOf(r.vertices[k])
    /\ \E k \in DOMAIN r.vertices : EndOf(r.edges[n]) = PositionOf(r.vertices[k])

\* The first edges are the Connections' edges, one each, and without
\* edgeMonzos there is no other.
OneEdgePerConnection(r, conns, o) ==
  /\ Len(r.edges) >= Len(conns)
  /\ o.edgeMonzos = <<>> => Len(r.edges) = Len(conns)
  /\ \A n \in DOMAIN conns :
       /\ r.edges[n].type = conns[n].type
       /\ r.edges[n].type \in {"primary", "auxiliary"}
       /\ StartOf(r.edges[n]) = PositionOf(r.vertices[conns[n].index1 + 1])
       /\ EndOf(r.edges[n]) = PositionOf(r.vertices[conns[n].index2 + 1])

\* Each merged edge starts and ends at end points of unmerged edges of its
\* type, and the merged and the unmerged edges have the same types.
TypesKept(merged, plain) ==
  /\ \A n \in DOMAIN merged :
       /\ \E k \in DOMAIN plain :
            /\ plain[k].type = merged[n].type
            /\ StartOf(merged[n]) \in {StartOf(plain[k]), EndOf(plain[k])}
       /\ \E k \in DOMAIN plain :
            /\ plain[k].type = merged[n].type
            /\ EndOf(merged[n]) \in {StartOf(plain[k]), EndOf(plain[k])}
  /\ {merged[n].type : n \in DOMAIN merged} = {plain[k].type : k \in DOMAIN plain}

\* C30: every edge of spanLattice and spanLattice3D starts and ends at the
\* position of a returned vertex; without merging there is one 'primary' or
\* 'auxiliary' edge per Connection; merging keeps the end points at vertex
\* positions and the types of the edges.
C30_EdgesJoinVertices ==
  (call \in {"spanLattice", "spanLattice3D"} /\ ~result.error) =>
    /\ EndpointsAreVertices(result)
    /\ ~args.options.mergeEdges =>
         OneEdgePerConnection(result, ConnectionsOfCall, args.options)
    /\ args.options.mergeEdges => TypesKept(result.edges, Unmerged.edges)

\* A merged call in three dimensions with an auxiliary vertex, custom edges
\* and fewer edges than without merging.
C30_Witness ==
  /\ call = "spanLattice3D"
  /\ ~result.error
  /\ args.options.mergeEdges
  /\ args.options.edgeMonzos # <<>>
  /\ args.options.depthwiseCoordinates # <<>>
  /\ Len(result.vertices) > Len(args.monzos)
  /\ Len(result.edges) < Len(Unmerged.edges)
  /\ \E n \in DOMAIN result.vertices : result.vertices[n].z # 0

(***************************************************************************)
(* The arrays of the caller and the in-place statements of the calls.  An  *)
(* array is the caller's (argument) or allocated by the call; a statement  *)
(* that edits an array in place reaches the caller when the array is the   *)
(* caller's.                                                               *)
(***************************************************************************)
argumentArray(value) == [argument |-> TRUE, value |-> value]

\* A spread that hands back the array it is given.
spreadAlias(a) == a

\* [...m]: a new array with the elements of m
spread(a) == [argument |-> FALSE, value |-> a.value]

\* a.map(f), a.concat(b), []: a new array with the given elements
newArray(value) == [argument |-> FALSE, value |-> value]

\* m.length = n, m.splice(...), m[k] += d, a.sort(...): the array holds value
inPlace(a, value) == [a EXCEPT !.value = value]

\* What the caller finds in its array after the statements on a.
afterCall(original, a) == IF a.argument THEN a.value ELSE original

\* project (utils.ts:143-158): projected = monzos.map(m => [...m]), then
\* m.length = ... and m.splice(i, 1) on every m of projected.
projectAfter(monzos, coordss) ==
  [n \in DOMAIN monzos |->
     afterCall(monzos[n], inPlace(spread(argumentArray(monzos[n])),
                                  project(<<monzos[n]>>, coordss)[1]))]

\* unproject (utils.ts:160-175): unprojected = monzos.map(m => [...m]), then
\* u.splice(i, 0, 0) on every u of unprojected.
unprojectAfter(monzos, coordss) ==
  [n \in DOMAIN monzos |->
     afterCall(monzos[n], inPlace(spread(argumentArray(monzos[n])),
                                  unproject(<<monzos[n]>>, coordss)[1]))]

\* The copies at index.ts:337-377.
project2DAfter(monzos, options) ==
  [n \in DOMAIN monzos |->
     afterCall(monzos[n], inPlace(spread(argumentArray(monzos[n])),
                                  project2D(<<monzos[n]>>, options)[1]))]

\* The statements of gapSearch on the copies of monzos[j] (utils.ts:74-78,
\* 89-95) for the pair (mi, mj), from index k on: the last array written.
RECURSIVE gapWrites(_, _, _, _)
gapWrites(mi, aj, k, len) ==
  IF k > len THEN aj
  ELSE
    LET gap == At(mi, k) - At(aj.value, k) IN
    IF Abs(gap) = 2 THEN
      inPlace(spread(aj), [paddedCopy(aj.value, mi) EXCEPT ![k] = @ + gap \div 2])
    ELSE IF Abs(gap) = 1 /\ k + 1 <= len THEN
      LET l == k + 1
          otherGap == At(mi, l) - At(aj.value, l)
          monzo == inPlace(spread(aj), paddedCopy(aj.value, mi))
          otherWay == spread(monzo)
          shifted == inPlace(monzo, [monzo.value EXCEPT ![k] = @ + gap])
      IN IF otherWay.argument
         THEN inPlace(otherWay, [shifted.value EXCEPT ![l] = @ + otherGap])
         ELSE shifted
    ELSE gapWrites(mi, aj, k + 1, len)

\* The loops over i < j of utils.ts:66-118 from the pair (i, j) on: the
\* caller's monzos after them.
RECURSIVE synthesizeAfter(_, _, _, _)
synthesizeAfter(monzos, maxDistance, i, j) ==
  IF i > Len(monzos) THEN monzos
  ELSE IF j > Len(monzos) THEN synthesizeAfter(monzos, maxDistance, i + 1, i + 2)
  ELSE
    LET distance == taxicabDistance(monzos[i], monzos[j])
        written ==
          IF distance > 1 /\ distance <= maxDistance
          THEN gapWrites(monzos[i], argumentArray(monzos[j]), 1,
                         Max(Len(monzos[i]), Len(monzos[j])))
          ELSE argumentArray(monzos[j])
    IN synthesizeAfter([monzos EXCEPT ![j] = afterCall(monzos[j], written)],
                       maxDistance, i, j + 1)

\* connect (utils.ts:57-141): the caller's batch after the call.  Line 122
\* binds the local name to monzos.concat(connectingMonzos).
connectAfter(monzos, maxDistance) ==
  IF connectThrows(maxDistance) \/ maxDistance <= 1 THEN monzos
  ELSE
    LET elements == synthesizeAfter(monzos, maxDistance, 1, 2)
        extended == newArray(elements \o connect(monzos, maxDistance).connectingMonzos)
    IN afterCall(elements, extended)

\* mergeEdges (index.ts:163-205): oriented = [] is filled and sorted in place.
mergeEdgesAfter(edges) ==
  afterCall(edges, inPlace(newArray([n \in DOMAIN edges |-> orient(edges[n])]),
                           sortByStart([n \in DOMAIN edges |-> orient(edges[n])])))

\* mergeEdges3D (lattice-3d.ts:74-125).
mergeEdges3DAfter(edges) ==
  afterCall(edges, inPlace(newArray([n \in DOMAIN edges |-> orient3D(edges[n])]),
                           sortByStart3D([n \in DOMAIN edges |-> orient3D(edges[n])])))

\* modVal (index.ts:476-524): val = logs.map(...), then val[i] += j * s.
modValAfter(logs, unit, divisions) ==
  IF modValThrows(logs, divisions) THEN logs
  ELSE
    LET val == [k \in DOMAIN logs |-> RoundRatio(logs[k] * divisions, logs[1])]
    IN afterCall(logs, inPlace(newArray(val),
                               force(logs, unit, divisions, val, 2, Len(val))))

\* spanGrid (index.ts:708, 779-780): steps = steps.map(...) and
\* evs = [...edgeVectors]; evs = evs.concat(...); neither is edited in place.
spanGridStepsAfter(steps, o) ==
  afterCall(steps, newArray([n \in DOMAIN steps |-> mmod(steps[n], o.modulus)]))

spanGridVectorsAfter(edgeVectors) ==
  afterCall(edgeVectors, newArray(withReversed(spread(argumentArray(edgeVectors)).value)))

(***************************************************************************)
(* A caller that keeps its arguments and calls the functions on them, in   *)
(* any order, up to MaxCalls times.                                        *)
(***************************************************************************)
FrameMonzos == {<<>>, <<1>>, <<0, 2>>, <<1, -1>>, <<-1, 0, 1>>}

FrameEdgeLists ==
  {<<[x1 |-> 1, y1 |-> 0, x2 |-> 2, y2 |-> 0, type |-> "primary"],
     [x1 |-> 1, y1 |-> 0, x2 |-> 0, y2 |-> 0, type |-> "primary"]>>,
   <<[x1 |-> 0, y1 |-> 1, x2 |-> 0, y2 |-> 0, type |-> "custom"]>>}

\* The edges of a list in the plane z = 0.
flat3D(edges) ==
  [n \in DOMAIN edges |->
     [x1 |-> edges[n].x1, y1 |-> edges[n].y1, z1 |-> 0,
      x2 |-> edges[n].x2, y2 |-> edges[n].y2, z2 |-> 0, type |-> edges[n].type]]

FrameCalls ==
  {"project", "unproject", "connect", "mergeEdges", "mergeEdges3D", "modVal",
   "spanGrid", "shortestEdge", "spanLattice", "spanLattice3D"}

FrameGridOptions(a) ==
  [modulus |-> 2, delta1 |-> 1, delta1X |-> 1, delta1Y |-> 0,
   delta2 |-> 1, delta2X |-> 0, delta2Y |-> -1,
   minX |-> -1, maxX |-> 1, minY |-> -1, maxY |-> 1,
   edgeVectors |-> <<a.edgeVectors>>, gridLines |-> <<>>, mergeEdges |-> FALSE,
   range |-> <<1>>, maxVertices |-> <<>>, maxEdges |-> <<>>]

FrameLatticeOptions(a) ==
  [horizontalCoordinates |-> a.coordss[2],
   verticalCoordinates |-> a.coordss[1],
   depthwiseCoordinates |-> a.coordss[3],
   maxDistance |-> <<a.maxDistance>>,
   edgeMonzos |-> <<a.edgeMonzos>>,
   mergeEdges |-> TRUE]

InitFrame ==
  /\ call = "none"
  /\ args \in [monzos : SeqsUpTo(FrameMonzos, 2),
               coordss : {<<<<0, 2>>, <<1>>, <<>>>>, <<<<0, 2>>, <<1>>, <<0, 0, 3>>>>},
               maxDistance : {2},
               edgeMonzos : {CustomSteps},
               edges : FrameEdgeLists,
               edges3D : {flat3D(edges) : edges \in FrameEdgeLists},
               logs : {<<1, 2>>, <<2, 3, 3>>},
               unit : {1},
               divisions : {3},
               steps : {<<3, 0, 1>>},
               step : {1},
               edgeVectors : {<<<<1, 0>>, <<0, -1>>>>}]
  /\ args.edges3D = flat3D(args.edges)
  /\ result = <<>>
  /\ previous = [arguments |-> args, calls |-> 0, results |-> [fn \in FrameCalls |-> <<>>]]

\* The results on record after a call of fn that returns value.
recorded(fn, value) ==
  [previous EXCEPT !.calls = @ + 1,
                   !.results[fn] = IF @ = <<>> THEN <<value>> ELSE @]

FrameProject ==
  /\ previous.calls < MaxCalls
  /\ call' = "project"
  /\ result' = project(args.monzos, args.coordss)
  /\ args' = [args EXCEPT !.monzos = projectAfter(args.monzos, args.coordss)]
  /\ previous' = recorded("project", result')

FrameUnproject ==
  /\ previous.calls < MaxCalls
  /\ call' = "unproject"
  /\ result' = unproject(args.monzos, args.coordss)
  /\ args' = [args EXCEPT !.monzos = unprojectAfter(args.monzos, args.coordss)]
  /\ previous' = recorded("unproject", result')

FrameConnect ==
  /\ previous.calls < MaxCalls
  /\ call' = "connect"
  /\ result' = connect(args.monzos, args.maxDistance)
  /\ args' = [args EXCEPT !.monzos = connectAfter(args.monzos, args.maxDistance)]
  /\ previous' = recorded("connect", result')

FrameMergeEdges ==
  /\ previous.calls < MaxCalls
  /\ call' = "mergeEdges"
  /\ result' = mergeEdges(args.edges)
  /\ args' = [args EXCEPT !.edges = mergeEdgesAfter(args.edges)]
  /\ previous' = recorded("mergeEdges", result')

FrameMergeEdges3D ==
  /\ previous.calls < MaxCalls
  /\ call' = "mergeEdges3D"
  /\ result' = mergeEdges3D(args.edges3D)
  /\ args' = [args EXCEPT !.edges3D = mergeEdges3DAfter(args.edges3D)]
  /\ previous' = recorded("mergeEdges3D", result')

FrameModVal ==
  /\ previous.calls < MaxCalls
  /\ call' = "modVal"
  /\ result' = modVal(args.logs, args.unit, args.divisions, 0)
  /\ args' = [args EXCEPT !.logs = modValAfter(args.logs, args.unit, args.divisions)]
  /\ previous' = recorded("modVal", result')

FrameSpanGrid ==
  /\ previous.calls < MaxCalls
  /\ call' = "spanGrid"
  /\ result' = spanGrid(args.steps, FrameGridOptions(args))
  /\ args' = [args EXCEPT !.steps = spanGridStepsAfter(args.steps, FrameGridOptions(args)),
                          !.edgeVectors = spanGridVectorsAfter(args.edgeVectors)]
  /\ previous' = recorded("spanGrid", result')

\* shortestEdge (index.ts:865-929) has no statement on an array of the caller.
FrameShortestEdge ==
  /\ previous.calls < MaxCalls
  /\ call' = "shortestEdge"
  /\ result' = shortestEdge(args.step, FrameGridOptions(args))
  /\ args' = args
  /\ previous' = recorded("shortestEdge", result')

\* spanLattice (index.ts:385-456) hands monzos and edgeMonzos to project, and
\* the projected copies to connect.
FrameSpanLattice ==
  /\ previous.calls < MaxCalls
  /\ call' = "spanLattice"
  /\ result' = spanLattice(args.monzos, FrameLatticeOptions(args))
  /\ args' = [args EXCEPT !.monzos = project2DAfter(args.monzos, FrameLatticeOptions(args)),
                          !.edgeMonzos = project2DAfter(args.edgeMonzos,
                                                        FrameLatticeOptions(args))]
  /\ previous' = recorded("spanLattice", result')

\* spanLattice3D (lattice-3d.ts:133-216).
FrameSpanLattice3D ==
  /\ previous.calls < MaxCalls
  /\ call' = "spanLattice3D"
  /\ result' = spanLattice3D(args.monzos, FrameLatticeOptions(args))
  /\ args' = [args EXCEPT !.monzos = projectAfter(args.monzos, args.coordss),
                          !.edgeMonzos = projectAfter(args.edgeMonzos, args.coordss)]
  /\ previous' = recorded("spanLattice3D", result')

NextFrame ==
  \/ FrameProject
  \/ FrameUnproject
  \/ FrameConnect
  \/ FrameMergeEdges
  \/ FrameMergeEdges3D
  \/ FrameModVal
  \/ FrameSpanGrid
  \/ FrameShortestEdge
  \/ FrameSpanLattice
  \/ FrameSpanLattice3D

SpecFrame == InitFrame /\ [][NextFrame]_vars

\* C23: the calls leave every argument as it was, and a call returns what
\* the first call of the same function on these arguments returned, whatever
\* was called in between.
C23_ArgumentsKept ==
  /\ args = previous.arguments
  /\ call # "none" => previous.results[call] = <<result>>

\* project called again after another function, on monzos that project
\* shortens.
C23_Witness ==
  /\ call = "project"
  /\ previous.calls = MaxCalls
  /\ Cardinality({fn \in FrameCalls : previous.results[fn] # <<>>}) = 2
  /\ previous.results["spanLattice"] # <<>>
  /\ \E n \in DOMAIN args.monzos : result[n] # args.monzos[n]

====
